---------------------------- MODULE Spec2Model ----------------------------
(***************************************************************************)
(* Model of the per-frame simulation of src/components/GameCanvas.tsx      *)
(* (updateGame, handleInput, resetGame, handlePlayerHit, gameOver and the  *)
(* ambient loop).                                                          *)
(*                                                                         *)
(* Number representation.  The program computes in IEEE doubles; the model *)
(* is fixed point:                                                         *)
(*   - lengths, positions and velocities are in 1/1000 px ("milli-px"),    *)
(*     so GRAVITY_FORCE 0.8 is 800 and SPEED_INCREMENT 0.003 is 3;         *)
(*   - the distance accumulator is in units of 1/20000 point, so that      *)
(*     "+= gameSpeed * 0.05" is "+= gameSpeed" and one point is 20000;     *)
(*   - score, coins, timers, lives and frame counts are plain integers.    *)
(* A product with a fractional factor (lerp, easing) is rounded down to    *)
(* the unit.                                                               *)
(*                                                                         *)
(* Paint-only state (particles, floating texts, the player's trail, the    *)
(* wisp's bobbing offset, colours of entities) is written by the handlers  *)
(* and read only by the draw routines; it is not part of the model.        *)
(***************************************************************************)
EXTENDS Integers, Sequences, FiniteSets, TLC

\* ------------------------------------------------------------ bounds ----
\* The environment of the first run is one of five kinds, chosen when it starts:
\*   "pilot": the player flips gravity (at most MaxFlips times, at any tick) and
\*            the spawn frames' random numbers spawn nothing;
\*   "drift": the player does not flip; spawn frames spawn anything;
\*   "crowd": the player does not flip; spawn frames spawn floor obstacles (the
\*            second one an obstacle or a coin), and
\*            the game may be paused right after a spawn.
\*   "shift": the player does not flip; the first spawn frames spawn anything,
\*            and the window may be resized when the run starts or right
\*            after a pickup was collected.
\*   "narrow": the player does not flip; the window may be made 70 px wide,
\*            so that pickups appear at the player's x (width + 50 = 120); the
\*            spawn frames spawn a MAGNET or a COIN at the floor player's y.
\* A later run is "idle": no flip, nothing spawned, followed like a pilot run.
\* The frame counter is followed up to PilotFrames, DriftFrames, CrowdFrames.
PilotFrames == 60
DriftFrames == 720
CrowdFrames == 450
ShiftFrames == 150
NarrowFrames == 200
\* The audio engine is followed on its own: with a steady host up to
\* SteadyHorizon ms of audio clock, after at most SteadyOps calls of playTrack
\* and stopMusic at mount; with a jittering host up to JitterHorizon ms, with at
\* most MaxAudioOps calls of playTrack and stopMusic at any time; with a mixing
\* host up to MixHorizon ms, with MaxSideOps calls of the other methods as well.
SteadyHorizon == 4400
SteadyOps == 1
JitterHorizon == 400
MixHorizon == 200
MaxAudioOps == 2
MaxSideOps == 1
\* The background is followed on its own for up to BgTicks calls of
\* updateBackground when there are decorations.
BgTicks == 100
\* In MENU, STORE and SETTINGS the ambient loop is followed up to MenuFrames.
MenuFrames == 4
\* Only the first DriftSpawns (CrowdSpawns) spawn frames of a run draw random
\* numbers that spawn something.
DriftSpawns == 3
CrowdSpawns == 5
ShiftSpawns == 1
NarrowSpawns == 2
\* A run on a wide window is followed for TrailFrames frames, and its first
\* TrailSpawns spawn frames draw pickups.
TrailFrames == 330
TrailSpawns == 3
\* At most MaxResizes resizes of the window are followed in one run.
MaxResizes == 1
\* At most MaxFlips gravity flips are followed in one run.
MaxFlips == 2
\* At most MaxPauses pauses are followed in one run, and the ambient loop is
\* followed for MaxPauseFrames frames of pause in all.
MaxPauses == 1
MaxPauseFrames == 40
\* At most MaxRuns runs are started.
MaxRuns == 2
\* coins of the inventory saved by an earlier session (localStorage)
SavedCoins == 7
\* high score saved by an earlier session (localStorage)
SavedHighScore == 750

\* --------------------------------------------------- program constants --
GRAVITY_FORCE == 800
INITIAL_SPEED == 8000
MAX_SPEED == 24000
BOOST_SPEED == 45000
SPEED_INCREMENT == 3
SYNC_DISTANCE_THRESHOLD == 60000
\* speed * 0.05 per tick, as the number of accumulator units in one point
PointUnits == 20 * 1000
\* one pixel in model units
Px == 10 * 100
\* player box (resetGame) and hitbox padding (updateGame)
PlayerX == 120000
PlayerSize == 32000
HitboxPad == 8000
PickupSize == 30000
TerminalVelocity == 15000
\* timers
BoostDuration == 180
PowerupDuration == 600
InvincibilityFrames == 120
ShakeFrames == 20
StartLives == 3
PassBonus == 100
SyncPayout == 5
MagnetRadius == 400000
MagnetStep == 15000
MinSpawnRate == 20
AmbientSpeed == 2000
\* updateBackground: interpolation amount in hundredths, the cull line, the
\* least number of decorations of layers 0 and 1; resetGame's spawn counts
LerpSpeed == 1
BgCull == -100 * Px
MinLayer0 == 5
MinLayer1 == 8
ResetLayer0 == 10
ResetLayer1 == 15
\* the audio engine, in milliseconds
Lookahead == 100
MenuTempo == 130
GameTempo == 107
TimerDelay == 25
StartLead == 100
PatternLength == 32

PickupTypes == {"COIN", "MULTIPLIER", "MAGNET", "BOOST"}
NoPowerup == [type |-> "null", timer |-> 0]

\* ------------------------------------------------------------ helpers ---
Abs(n) == IF n < 0 THEN -n ELSE n
Max(a, b) == IF a > b THEN a ELSE b

\* const lerp = (start, end, t) => start * (1 - t) + end * t, t in percent
lerp(start, end, tPercent) == (start * (100 - tPercent) + end * tPercent) \div 100

\* Math.sin, argument in 1/1000 rad, result in 1/1000: Bhaskara's rational
\* approximation 16x(pi-x) / (5pi^2 - 4x(pi-x)) on each half period.
SinHalf(x) ==
    LET p == x * (3142 - x)
    IN  (1600 * (p \div 10)) \div ((5 * 3142 * 3142 - 4 * p) \div 100)
Sin(a) ==
    LET r == a % 6284
    IN  IF r <= 3142 THEN SinHalf(r) ELSE -SinHalf(r - 3142)

\* checkCollision(p, item): axis-aligned overlap of two boxes
checkCollision(px, py, pw, ph, ix, iy, iw, ih) ==
    /\ px < ix + iw
    /\ px + pw > ix
    /\ py < iy + ih
    /\ py + ph > iy

\* Array.prototype.splice(i, 1)
Splice(s, i) ==
    IF i < 1 \/ i > Len(s) THEN s
    ELSE [k \in 1..(Len(s) - 1) |-> IF k < i THEN s[k] ELSE s[k + 1]]

\* for (i = toRemove.length - 1; i >= 0; i--) arr.splice(toRemove[i], 1)
RECURSIVE SpliceAll(_, _)
SpliceAll(s, toRemove) ==
    IF toRemove = <<>> THEN s
    ELSE SpliceAll(Splice(s, toRemove[Len(toRemove)]),
                   SubSeq(toRemove, 1, Len(toRemove) - 1))


\* -------------------------------------------------------------- state ---
VARIABLES
    gameState,        \* useState<GameState>: MENU, PLAYING, PAUSED, GAME_OVER, STORE, SETTINGS
    canvasSize,       \* canvasSizeRef: [width, height]
    player,           \* playerRef: [x, y, width, height, dy, gravity, isGrounded]
    drone,            \* droneRef: [y, message, messageTimer, isSynced, accumulatedScore]
    lives,            \* livesRef
    obstacles,        \* obstaclesRef: sequence of [id, x, y, width, height, passed, bonus]
    pickups,          \* pickupsRef: sequence of [id, x, y, nan, type, collected, effects]
    powerup,          \* powerupRef: [type, timer]
    invincibility,    \* invincibilityRef
    hudShake,         \* hudShakeRef
    coins,            \* coinsRef
    gameSpeed,        \* gameSpeedRef
    score,            \* scoreRef
    distanceScore,    \* distanceScoreRef
    level,            \* levelRef
    frames,           \* framesRef
    currentBiomeIndex,\* currentBiomeIndexRef
    finalScore,       \* useState finalScore
    collectedCoins,   \* useState collectedCoins
    inventoryCoins,   \* App's inventory.coins
    highScore,        \* App's highScore
    env,              \* bookkeeping of the bounds: [mode, runs, spawns, flips, pauses,
                      \* paused, resizes, nextId]
    hist,             \* history: [n, mult] ticks in proximity (and of them under
                      \* MULTIPLIER) since the last tick out of it or under BOOST;
                      \* afterBoost: a BOOST ran out and none was collected since
                      \* startCoins: inventory.coins when the run started
    gameOverCalls,    \* history: calls of gameOver() in the current run
    last,             \* history: what the last handler did
    audio,            \* the AudioEngine: [ctx, isPlaying, currentTrack, step,
                      \* nextNoteTime, timerID]
    host,             \* the engine's host: the audio clock, the pending timers,
                      \* and the history of what the engine scheduled
    backdrop          \* the background: [palette, bgEntities] and the history of
                      \* the last updateBackground call

gameVars == <<gameState, canvasSize, player, drone, lives, obstacles, pickups, powerup,
              invincibility, hudShake, coins, gameSpeed, score, distanceScore, level,
              frames, currentBiomeIndex, finalScore, collectedCoins, inventoryCoins,
              highScore, env, hist, gameOverCalls, last, backdrop>>

vars == <<gameState, canvasSize, player, drone, lives, obstacles, pickups, powerup,
          invincibility, hudShake, coins, gameSpeed, score, distanceScore, level,
          frames, currentBiomeIndex, finalScore, collectedCoins, inventoryCoins,
          highScore, env, hist, gameOverCalls, last, audio, host, backdrop>>

\* BIOMES[i].threshold
BiomeThreshold(i) ==
    CASE i = 0 -> 0 [] i = 1 -> 2000 [] i = 2 -> 5000 [] OTHER -> 8000

\* ------------------------------------------------- updateGame, by step --

\* ExpireStep without the reset of the speed when a BOOST runs out
ExpireStepKeepSpeed(pu, speed, dr) ==
    IF pu.type = "null"
    THEN [powerup |-> pu, gameSpeed |-> speed, drone |-> dr, expired |-> "null"]
    ELSE IF pu.timer - 1 > 0
    THEN [powerup |-> [pu EXCEPT !.timer = pu.timer - 1], gameSpeed |-> speed,
          drone |-> dr, expired |-> "null"]
    ELSE [powerup |-> [type |-> "null", timer |-> pu.timer - 1],
          gameSpeed |-> speed, drone |-> dr, expired |-> pu.type]

\* ExpireStep that leaves the type in the slot when the timer has run out
ExpireStepStale(pu, speed, dr) ==
    IF pu.type = "null"
    THEN [powerup |-> pu, gameSpeed |-> speed, drone |-> dr, expired |-> "null"]
    ELSE IF pu.timer - 1 > 0
    THEN [powerup |-> [pu EXCEPT !.timer = pu.timer - 1], gameSpeed |-> speed,
          drone |-> dr, expired |-> "null"]
    ELSE [powerup |-> [type |-> pu.type, timer |-> 0],
          gameSpeed |-> IF pu.type = "BOOST" THEN MAX_SPEED ELSE speed,
          drone |-> dr, expired |-> pu.type]

\* if (powerupRef.current.type) { timer--; if (timer <= 0) {...; type = null} }
ExpireStep(pu, speed, dr) ==
    IF pu.type = "null"
    THEN [powerup |-> pu, gameSpeed |-> speed, drone |-> dr, expired |-> "null"]
    ELSE IF pu.timer - 1 > 0
    THEN [powerup |-> [pu EXCEPT !.timer = pu.timer - 1], gameSpeed |-> speed,
          drone |-> dr, expired |-> "null"]
    ELSE [powerup |-> [type |-> "null", timer |-> pu.timer - 1],
          gameSpeed |-> IF pu.type = "BOOST" THEN MAX_SPEED ELSE speed,
          drone |-> IF pu.type = "BOOST"
                    THEN [dr EXCEPT !.message = "THANK GOD...", !.messageTimer = 120]
                    ELSE dr,
          expired |-> pu.type]

\* the BOOST branch of the physics: speed and position ease, no gravity
BoostPhysics(p, speed, height) ==
    LET targetY == (height \div 2) - (p.height \div 2)
    IN  [player |-> [p EXCEPT !.y = p.y + ((targetY - p.y) * 10) \div 100,
                              !.dy = 0, !.isGrounded = FALSE],
         gameSpeed |-> lerp(speed, BOOST_SPEED, 5),
         branch |-> "boost"]

\* GravityPhysics without the clamp at the top boundary
GravityPhysicsOpenTop(p, speed, height) ==
    LET dy1 == p.dy + p.gravity
        dy2 == IF dy1 > TerminalVelocity THEN TerminalVelocity
               ELSE IF dy1 < -TerminalVelocity THEN -TerminalVelocity ELSE dy1
        y1  == p.y + dy2
    IN  [player |->
            IF y1 + p.height >= height
            THEN [p EXCEPT !.y = height - p.height, !.dy = 0, !.isGrounded = TRUE]
            ELSE [p EXCEPT !.y = y1, !.dy = dy2, !.isGrounded = FALSE],
         gameSpeed |-> IF speed < MAX_SPEED THEN speed + SPEED_INCREMENT ELSE speed,
         branch |-> "gravity"]

\* the normal branch: speed ramp, gravity, terminal velocity, clamping
GravityPhysics(p, speed, height) ==
    LET dy1 == p.dy + p.gravity
        dy2 == IF dy1 > TerminalVelocity THEN TerminalVelocity
               ELSE IF dy1 < -TerminalVelocity THEN -TerminalVelocity ELSE dy1
        y1  == p.y + dy2
    IN  [player |->
            IF y1 + p.height >= height
            THEN [p EXCEPT !.y = height - p.height, !.dy = 0, !.isGrounded = TRUE]
            ELSE IF y1 <= 0
            THEN [p EXCEPT !.y = 0, !.dy = 0, !.isGrounded = TRUE]
            ELSE [p EXCEPT !.y = y1, !.dy = dy2, !.isGrounded = FALSE],
         gameSpeed |-> IF speed < MAX_SPEED THEN speed + SPEED_INCREMENT ELSE speed,
         branch |-> "gravity"]

PhysicsStep(p, pu, speed, height) ==
    IF pu.type = "BOOST" THEN BoostPhysics(p, speed, height)
    ELSE GravityPhysics(p, speed, height)

\* updateBackground: the biome selected by the score
RECURSIVE TargetIndex(_, _, _)
TargetIndex(sc, i, acc) ==
    IF i > 3 THEN acc
    ELSE TargetIndex(sc, i + 1, IF sc >= BiomeThreshold(i) THEN i ELSE acc)
\* the biome selection stopping at the first biome whose threshold is reached
UpdateBackgroundFirst(sc) ==
    CHOOSE i \in 0..3 : /\ sc >= BiomeThreshold(i)
                        /\ \A j \in 0..(i - 1) : sc < BiomeThreshold(j)

\* updateBackground: currentBiomeIndexRef after the call
UpdateBackground(sc) == TargetIndex(sc, 0, 0)

\* the wisp: dodge the nearest unpassed obstacle ahead, else idle on a sine
Threats(obs, p) ==
    {i \in 1..Len(obs) : /\ ~obs[i].passed
                         /\ obs[i].x - p.x > 0
                         /\ obs[i].x - p.x < 600 * Px}
NearestObs(obs, p) ==
    LET T == Threats(obs, p)
    IN  CHOOSE i \in T : \A j \in T : \/ obs[i].x < obs[j].x
                                      \/ (obs[i].x = obs[j].x /\ i <= j)
WispStep(dr, obs, p, fr, height) ==
    IF Threats(obs, p) # {}
    THEN LET o == obs[NearestObs(obs, p)]
             targetY == IF o.y > 0 THEN height \div 4 ELSE (height * 3) \div 4
         IN  [dr EXCEPT !.y = dr.y + ((targetY - dr.y) * 5) \div 100]
    ELSE LET targetY == (height \div 2)
                        + (Sin(fr * 50) * ((height * 3) \div 10)) \div 1000
         IN  [dr EXCEPT !.y = dr.y + ((targetY - dr.y) * 3) \div 100]

IsSynced(p, dr) ==
    Abs((p.y + p.height \div 2) - dr.y) < SYNC_DISTANCE_THRESHOLD

\* SyncStep accruing 1 a tick whatever the power-up
SyncStepFlat(dr, p, pu, sc) ==
    LET synced == IsSynced(p, dr)
    IN  IF synced /\ pu.type # "BOOST"
        THEN [drone |-> [dr EXCEPT !.accumulatedScore = dr.accumulatedScore + 1,
                         !.isSynced = synced],
              score |-> sc, bonus |-> 0]
        ELSE IF dr.accumulatedScore > 0
        THEN [drone |-> [dr EXCEPT !.accumulatedScore = 0, !.isSynced = synced],
              score |-> sc + dr.accumulatedScore * SyncPayout,
              bonus |-> dr.accumulatedScore * SyncPayout]
        ELSE [drone |-> [dr EXCEPT !.isSynced = synced],
              score |-> sc, bonus |-> 0]

\* SyncStep whose bucket leaks a point a tick out of proximity, paying nothing
SyncStepLeak(dr, p, pu, sc) ==
    LET synced == IsSynced(p, dr)
    IN  IF synced /\ pu.type # "BOOST"
        THEN [drone |-> [dr EXCEPT !.accumulatedScore =
                            dr.accumulatedScore + (IF pu.type = "MULTIPLIER" THEN 2 ELSE 1),
                         !.isSynced = synced],
              score |-> sc, bonus |-> 0]
        ELSE IF dr.accumulatedScore > 0
        THEN [drone |-> [dr EXCEPT !.accumulatedScore = dr.accumulatedScore - 1,
                                   !.isSynced = synced],
              score |-> sc, bonus |-> 0]
        ELSE [drone |-> [dr EXCEPT !.isSynced = synced],
              score |-> sc, bonus |-> 0]

\* the sync bucket: accrue while in proximity and not boosting, else cash out
SyncStep(dr, p, pu, sc) ==
    LET synced == IsSynced(p, dr)
    IN  IF synced /\ pu.type # "BOOST"
        THEN [drone |-> [dr EXCEPT !.accumulatedScore =
                            dr.accumulatedScore + (IF pu.type = "MULTIPLIER" THEN 2 ELSE 1),
                         !.isSynced = synced],
              score |-> sc, bonus |-> 0]
        ELSE IF dr.accumulatedScore > 0
        THEN [drone |-> [dr EXCEPT !.accumulatedScore = 0, !.isSynced = synced],
              score |-> sc + dr.accumulatedScore * SyncPayout,
              bonus |-> dr.accumulatedScore * SyncPayout]
        ELSE [drone |-> [dr EXCEPT !.isSynced = synced],
              score |-> sc, bonus |-> 0]

\* DistanceStep that assigns the whole part to the score
DistanceStepAssign(acc, pu, sc) ==
    IF acc >= PointUnits
    THEN LET whole == acc \div PointUnits
             addedScore == IF pu.type = "MULTIPLIER" THEN whole * 2 ELSE whole
         IN  [distanceScore |-> acc - whole * PointUnits,
              score |-> addedScore, added |-> addedScore]
    ELSE [distanceScore |-> acc, score |-> sc, added |-> 0]

\* DistanceStep that drops the fraction when it scores
DistanceStepNoCarry(acc, pu, sc) ==
    IF acc >= PointUnits
    THEN LET whole == acc \div PointUnits
             addedScore == IF pu.type = "MULTIPLIER" THEN whole * 2 ELSE whole
         IN  [distanceScore |-> 0, score |-> sc + addedScore, added |-> addedScore]
    ELSE [distanceScore |-> acc, score |-> sc, added |-> 0]

\* the distance channel: acc is the accumulator after "+= gameSpeed * 0.05"
DistanceStep(acc, pu, sc) ==
    IF acc >= PointUnits
    THEN LET whole == acc \div PointUnits
             addedScore == IF pu.type = "MULTIPLIER" THEN whole * 2 ELSE whole
         IN  [distanceScore |-> acc - whole * PointUnits,
              score |-> sc + addedScore, added |-> addedScore]
    ELSE [distanceScore |-> acc, score |-> sc, added |-> 0]

\* the wisp's chat: a phrase when floor(score / 1000) grows, and its timer
LevelStep(sc, lv, dr) ==
    LET currentLevel == sc \div 1000
        d1 == IF currentLevel > lv
              THEN [dr EXCEPT !.message = "PHRASE", !.messageTimer = 180]
              ELSE dr
        d2 == IF d1.messageTimer > 0
              THEN [d1 EXCEPT !.messageTimer = d1.messageTimer - 1,
                              !.message = IF d1.messageTimer - 1 <= 0
                                          THEN "null" ELSE d1.message]
              ELSE d1
    IN  [level |-> IF currentLevel > lv THEN currentLevel ELSE lv, drone |-> d2]

\* Math.floor(1000 / (gameSpeed * 1.3)) and the spawn test on the new frame count
SpawnRate(speed) == 10000000 \div (13 * speed)
\* the spawn test on the frame count before its increment
IsSpawnFrameBefore(fr, speed) == (fr - 1) % Max(MinSpawnRate, SpawnRate(speed)) = 0
IsSpawnFrame(fr, speed) == fr % Max(MinSpawnRate, SpawnRate(speed)) = 0

\* ------------------------------------------------------------ spawning --
\* PickupType chosen by spawnPickup from Math.random() (in 1/1000)
PickupTypeOf(rand) ==
    IF rand > 950 THEN "BOOST"
    ELSE IF rand > 880 THEN "MAGNET"
    ELSE IF rand > 800 THEN "MULTIPLIER" ELSE "COIN"

\* spawnPickup: nothing on an unsized viewport, else one pickup right of the screen
spawnPickup(pks, size, roll, id) ==
    IF size.width = 0 THEN pks
    ELSE LET margin == (size.height * 3) \div 10
         IN  Append(pks, [id |-> id, x |-> size.width + 50 * Px,
                          y |-> margin + (roll.yRand * (size.height - margin * 2)) \div 1000,
                          nan |-> FALSE, type |-> PickupTypeOf(roll.typeRand),
                          collected |-> FALSE, effects |-> 0])

\* spawnObstacle that does not look at the power-up
spawnObstacleAnyway(obs, size, pu, roll, id) ==
    IF size.width = 0 THEN obs
    ELSE LET minHeight == (size.height * 15) \div 100
             obstacleHeight == minHeight + (roll.hRand * ((size.height * 15) \div 100)) \div 1000
             baseWidth == (size.height * 12) \div 100
             obstacleWidth ==
                 IF roll.block
                 THEN baseWidth + (roll.wRand * (baseWidth \div 2)) \div 1000
                 ELSE (baseWidth * 8) \div 10 + (roll.wRand * ((baseWidth * 4) \div 10)) \div 1000
         IN  Append(obs, [id |-> id, x |-> size.width + 50 * Px,
                          y |-> IF roll.isTop THEN 0 ELSE size.height - obstacleHeight,
                          width |-> obstacleWidth, height |-> obstacleHeight,
                          passed |-> FALSE, bonus |-> 0])

\* spawnObstacle: nothing on an unsized viewport or under BOOST
spawnObstacle(obs, size, pu, roll, id) ==
    IF size.width = 0 \/ pu.type = "BOOST" THEN obs
    ELSE LET minHeight == (size.height * 15) \div 100
             obstacleHeight == minHeight + (roll.hRand * ((size.height * 15) \div 100)) \div 1000
             baseWidth == (size.height * 12) \div 100
             obstacleWidth ==
                 IF roll.block
                 THEN baseWidth + (roll.wRand * (baseWidth \div 2)) \div 1000
                 ELSE (baseWidth * 8) \div 10 + (roll.wRand * ((baseWidth * 4) \div 10)) \div 1000
         IN  Append(obs, [id |-> id, x |-> size.width + 50 * Px,
                          y |-> IF roll.isTop THEN 0 ELSE size.height - obstacleHeight,
                          width |-> obstacleWidth, height |-> obstacleHeight,
                          passed |-> FALSE, bonus |-> 0])

\* ------------------------------------------------------- pickup pass ----
\* Math.sqrt on an integer, rounded down
RECURSIVE ISqrtIn(_, _, _)
ISqrtIn(n, lo, hi) ==
    IF lo >= hi THEN lo
    ELSE LET mid == (lo + hi + 1) \div 2
         IN  IF mid * mid <= n THEN ISqrtIn(n, mid, hi) ELSE ISqrtIn(n, lo, mid - 1)
ISqrt(n) == ISqrtIn(n, 0, 46340)

\* Math.sqrt(dx*dx + dy*dy), in milli-px
Dist(dx, dy) ==
    IF Abs(dx) < 30 * Px /\ Abs(dy) < 30 * Px
    THEN ISqrt(dx * dx + dy * dy)
    ELSE 100 * ISqrt((dx \div 100) * (dx \div 100) + (dy \div 100) * (dy \div 100))

\* (d / dist) * 15
Toward(d, dist) ==
    IF dist < 30 * Px THEN (d * MagnetStep) \div dist
    ELSE (d * (MagnetStep \div 100)) \div (dist \div 100)

\* one pickup's move: attracted COIN under MAGNET, else scrolled
MovePickup(pk, p, pu, speed) ==
    IF pk.nan THEN pk
    ELSE IF pu.type = "MAGNET" /\ pk.type = "COIN"
    THEN LET dx == p.x - pk.x
             dy == p.y - pk.y
             dist == Dist(dx, dy)
         IN  IF dist < MagnetRadius
             THEN IF dx = 0 /\ dy = 0
                  THEN [pk EXCEPT !.nan = TRUE]
                  ELSE [pk EXCEPT !.x = pk.x + Toward(dx, dist),
                                  !.y = pk.y + Toward(dy, dist)]
             ELSE [pk EXCEPT !.x = pk.x - speed]
    ELSE [pk EXCEPT !.x = pk.x - speed]

\* CollectEffect giving every power-up the long timer
CollectEffectLong(pk, st) ==
    IF pk.type = "COIN"
    THEN [st EXCEPT !.coins = st.coins + 1]
    ELSE [st EXCEPT !.powerup = [type |-> pk.type, timer |-> PowerupDuration]]

\* the effect of collecting one pickup on the slot and the coin counter
CollectEffect(pk, st) ==
    IF pk.type = "COIN"
    THEN [st EXCEPT !.coins = st.coins + 1]
    ELSE [st EXCEPT !.powerup =
            [type |-> pk.type,
             timer |-> IF pk.type = "BOOST" THEN BoostDuration ELSE PowerupDuration]]

\* PickupBody that neither tests the collected flag nor queues the removal
PickupBodyAgain(st, idx, p, speed) ==
    LET pk == MovePickup(st.pickups[idx], p, st.powerup, speed)
        off == ~pk.nan /\ pk.x + PickupSize < -50 * Px
        rem1 == IF off THEN Append(st.toRemove, idx) ELSE st.toRemove
        hit == /\ ~pk.nan
               /\ checkCollision(p.x, p.y, p.width, p.height,
                                 pk.x, pk.y, PickupSize, PickupSize)
    IN  IF hit
        THEN LET e == CollectEffect(pk, st)
             IN  [e EXCEPT !.pickups[idx] = [pk EXCEPT !.collected = TRUE,
                                                      !.effects = pk.effects + 1],
                           !.toRemove = rem1,
                           !.taken = Append(st.taken, pk.type)]
        ELSE [st EXCEPT !.pickups[idx] = pk, !.toRemove = rem1]

\* PickupBody that queues a collected pickup's index twice
PickupBodyTwice(st, idx, p, speed) ==
    LET pk == MovePickup(st.pickups[idx], p, st.powerup, speed)
        off == ~pk.nan /\ pk.x + PickupSize < -50 * Px
        rem1 == IF off THEN Append(st.toRemove, idx) ELSE st.toRemove
        hit == /\ ~pk.collected
               /\ ~pk.nan
               /\ checkCollision(p.x, p.y, p.width, p.height,
                                 pk.x, pk.y, PickupSize, PickupSize)
    IN  IF hit
        THEN LET e == CollectEffect(pk, st)
             IN  [e EXCEPT !.pickups[idx] = [pk EXCEPT !.collected = TRUE,
                                                      !.effects = pk.effects + 1],
                           !.toRemove = Append(Append(rem1, idx), idx),
                           !.taken = Append(st.taken, pk.type)]
        ELSE [st EXCEPT !.pickups[idx] = pk, !.toRemove = rem1]

\* PickupBody testing the pickup against the inset hitbox of the obstacle test
PickupBodyInset(st, idx, p, speed) ==
    LET pk == MovePickup(st.pickups[idx], p, st.powerup, speed)
        off == ~pk.nan /\ pk.x + PickupSize < -50 * Px
        rem1 == IF off THEN Append(st.toRemove, idx) ELSE st.toRemove
        hit == /\ ~pk.collected
               /\ ~pk.nan
               /\ checkCollision(p.x + HitboxPad, p.y + HitboxPad,
                                 p.width - HitboxPad * 2, p.height - HitboxPad * 2,
                                 pk.x, pk.y, PickupSize, PickupSize)
    IN  IF hit
        THEN LET e == CollectEffect(pk, st)
             IN  [e EXCEPT !.pickups[idx] = [pk EXCEPT !.collected = TRUE,
                                                      !.effects = pk.effects + 1],
                           !.toRemove = Append(rem1, idx),
                           !.taken = Append(st.taken, pk.type)]
        ELSE [st EXCEPT !.pickups[idx] = pk, !.toRemove = rem1]

\* the body of pickupsRef.current.forEach for index idx
PickupBody(st, idx, p, speed) ==
    LET pk == MovePickup(st.pickups[idx], p, st.powerup, speed)
        off == ~pk.nan /\ pk.x + PickupSize < -50 * Px
        rem1 == IF off THEN Append(st.toRemove, idx) ELSE st.toRemove
        hit == /\ ~pk.collected
               /\ ~pk.nan
               /\ checkCollision(p.x, p.y, p.width, p.height,
                                 pk.x, pk.y, PickupSize, PickupSize)
    IN  IF hit
        THEN LET e == CollectEffect(pk, st)
             IN  [e EXCEPT !.pickups[idx] = [pk EXCEPT !.collected = TRUE,
                                                      !.effects = pk.effects + 1],
                           !.toRemove = Append(rem1, idx),
                           !.taken = Append(st.taken, pk.type)]
        ELSE [st EXCEPT !.pickups[idx] = pk, !.toRemove = rem1]

RECURSIVE PickupLoop(_, _, _, _)
PickupLoop(st, idx, p, speed) ==
    IF idx > Len(st.pickups) THEN st
    ELSE PickupLoop(PickupBody(st, idx, p, speed), idx + 1, p, speed)

\* the whole pickup pass, removal included
PickupPass(pks, p, pu, cns, speed) ==
    LET st == PickupLoop([pickups |-> pks, toRemove |-> <<>>, powerup |-> pu,
                          coins |-> cns, taken |-> <<>>, gone |-> <<>>], 1, p, speed)
        kept == SpliceAll(st.pickups, st.toRemove)
    IN  [st EXCEPT !.pickups = kept,
                   !.gone = LET ids == {kept[k].id : k \in 1..Len(kept)}
                            IN  SelectSeq(st.pickups, LAMBDA pk : pk.id \notin ids)]

\* ----------------------------------------------------- obstacle pass ----
\* gameOver crediting the coins to the inventory as it is now
gameOverLive(st) ==
    [st EXCEPT !.finalScore = st.score,
               !.collectedCoins = st.coins,
               !.inventoryCoins = st.inventoryCoins + st.coins,
               !.highScore = st.score,
               !.gameState = "GAME_OVER",
               !.gameOverCalls = st.gameOverCalls + 1]

\* gameOver(): report the score, credit the coins, enter GAME_OVER
gameOver(st) ==
    [st EXCEPT !.finalScore = st.score,
               !.collectedCoins = st.coins,
               !.inventoryCoins = st.inventoryAtRender + st.coins,
               !.highScore = st.score,
               !.gameState = "GAME_OVER",
               !.gameOverCalls = st.gameOverCalls + 1]

\* handlePlayerHit that grants no invincibility window
handlePlayerHitNoGrace(st) ==
    IF st.invincibility > 0 THEN st
    ELSE LET s1 == [st EXCEPT !.lives = st.lives - 1, !.hits = st.hits + 1]
         IN  IF s1.lives <= 0 THEN gameOver(s1)
             ELSE [s1 EXCEPT !.hudShake = ShakeFrames]

\* handlePlayerHit()
handlePlayerHit(st) ==
    IF st.invincibility > 0 THEN st
    ELSE LET s1 == [st EXCEPT !.lives = st.lives - 1, !.hits = st.hits + 1]
         IN  IF s1.lives <= 0 THEN gameOver(s1)
             ELSE [s1 EXCEPT !.invincibility = InvincibilityFrames,
                             !.hudShake = ShakeFrames]

\* PassStep that does not test the passed flag
PassStepEveryTick(o, p, st) ==
    IF o.x + o.width < p.x
    THEN [obs |-> [o EXCEPT !.passed = TRUE, !.bonus = o.bonus + 1],
          st |-> [st EXCEPT !.score = st.score + PassBonus,
                            !.passBonus = st.passBonus + PassBonus]]
    ELSE [obs |-> o, st |-> st]

\* the obstacle's pass test and bonus
PassStep(o, p, st) ==
    IF ~o.passed /\ o.x + o.width < p.x
    THEN [obs |-> [o EXCEPT !.passed = TRUE, !.bonus = o.bonus + 1],
          st |-> [st EXCEPT !.score = st.score + PassBonus,
                            !.passBonus = st.passBonus + PassBonus]]
    ELSE [obs |-> o, st |-> st]

\* the inset player hitbox against the obstacle's full bounds
HitsPlayer(o, p) ==
    checkCollision(p.x + HitboxPad, p.y + HitboxPad,
                   p.width - HitboxPad * 2, p.height - HitboxPad * 2,
                   o.x, o.y, o.width, o.height)

\* ObstacleBody removing the obstacle as soon as it is left of the screen edge
ObstacleBodyAtEdge(st, idx, p, pu, speed) ==
    LET o1 == [st.obstacles[idx] EXCEPT !.x = st.obstacles[idx].x - speed]
        ps == PassStep(o1, p, st)
        s1 == [ps.st EXCEPT !.obstacles[idx] = ps.obs,
                            !.toRemove = IF o1.x + o1.width < 0
                                         THEN Append(ps.st.toRemove, idx)
                                         ELSE ps.st.toRemove]
    IN  IF pu.type # "BOOST" /\ s1.invincibility = 0 /\ HitsPlayer(o1, p)
        THEN handlePlayerHit(s1)
        ELSE s1

\* the body of obstaclesRef.current.forEach for index idx
ObstacleBody(st, idx, p, pu, speed) ==
    LET o1 == [st.obstacles[idx] EXCEPT !.x = st.obstacles[idx].x - speed]
        ps == PassStep(o1, p, st)
        s1 == [ps.st EXCEPT !.obstacles[idx] = ps.obs,
                            !.toRemove = IF o1.x + o1.width < -100 * Px
                                         THEN Append(ps.st.toRemove, idx)
                                         ELSE ps.st.toRemove]
    IN  IF pu.type # "BOOST" /\ s1.invincibility = 0 /\ HitsPlayer(o1, p)
        THEN handlePlayerHit(s1)
        ELSE s1

RECURSIVE ObstacleLoop(_, _, _, _, _)
ObstacleLoop(st, idx, p, pu, speed) ==
    IF idx > Len(st.obstacles) THEN st
    ELSE ObstacleLoop(ObstacleBody(st, idx, p, pu, speed), idx + 1, p, pu, speed)

ObstaclePass(st0, p, pu, speed) ==
    LET st == ObstacleLoop(st0, 1, p, pu, speed)
        kept == SpliceAll(st.obstacles, st.toRemove)
    IN  [st EXCEPT !.obstacles = kept,
                   !.removed = LET ids == {kept[k].id : k \in 1..Len(kept)}
                               IN  SelectSeq(st.obstacles, LAMBDA o : o.id \notin ids)]

\* ------------------------------------------------------- environment ----
\* viewport sizes the host may give (width, height), in milli-px: the size at
\* mount, a lower window, a window of no height, and a surface that is not
\* sized; and the narrow window of the "narrow" environment
StartView == [width |-> 200 * Px, height |-> 200 * Px]
ViewSizes == {StartView, [width |-> 200 * Px, height |-> 100 * Px],
              [width |-> 200 * Px, height |-> 0], [width |-> 0, height |-> 0]}
NarrowView == [width |-> 70 * Px, height |-> 100 * Px]
TrailView == [width |-> 1000 * Px, height |-> 100 * Px]
ViewsOf(mode) == IF mode = "narrow" THEN {NarrowView} ELSE ViewSizes

\* outcomes of the Math.random() calls of one spawn frame (values in 1/1000)
ObstacleRolls ==
    {[kind |-> "obstacle", isTop |-> t, block |-> TRUE, hRand |-> 999, wRand |-> 999] :
        t \in BOOLEAN}
PickupRolls ==
    {[kind |-> "pickup", typeRand |-> r, yRand |-> 990] : r \in {0, 850, 900, 990}}
NarrowRolls ==
    {[kind |-> "pickup", typeRand |-> r, yRand |-> 950] : r \in {0, 900}}
TrailRolls ==
    {[kind |-> "pickup", typeRand |-> r, yRand |-> y] : r \in {0, 900}, y \in {0, 990}}
NoRoll == [kind |-> "none"]
SpawnRolls == {NoRoll} \cup ObstacleRolls \cup PickupRolls
ModesOf(runs) ==
    IF runs = 0 THEN {"pilot", "drift", "crowd", "shift", "narrow"} ELSE {"idle"}
RollsOf(mode) ==
    CASE mode \in {"drift", "shift"} -> SpawnRolls
      [] mode = "crowd" -> {r \in ObstacleRolls : ~r.isTop}
      [] mode = "narrow" -> NarrowRolls
      [] mode = "trail" -> TrailRolls
      [] OTHER -> {NoRoll}
\* the outcomes at the spawn frame reached with e.spawns earlier ones
RollsAt(e) ==
    IF e.mode = "crowd" /\ e.spawns = 1
    THEN RollsOf(e.mode) \cup {r \in PickupRolls : r.typeRand = 0}
    ELSE RollsOf(e.mode)
SpawnFrames(mode) ==
    CASE mode = "drift" -> DriftSpawns
      [] mode = "crowd" -> CrowdSpawns
      [] mode = "shift" -> ShiftSpawns
      [] mode = "narrow" -> NarrowSpawns
      [] mode = "trail" -> TrailSpawns
      [] OTHER -> 0
Horizon(mode) ==
    CASE mode = "drift" -> DriftFrames
      [] mode = "crowd" -> CrowdFrames
      [] mode = "shift" -> ShiftFrames
      [] mode = "narrow" -> NarrowFrames
      [] mode = "trail" -> TrailFrames
      [] OTHER -> PilotFrames

\* what `last` holds when the last handler was not updateGame
LastNone ==
    [op |-> "init", prevAcc |-> 0, distAdded |-> 0, prevBucket |-> 0, syncBonus |-> 0,
     synced |-> FALSE, prevRun |-> [n |-> 0, mult |-> 0], passBonus |-> 0,
     prevScore |-> 0, expired |-> "null",
     slot |-> NoPowerup, taken |-> <<>>, gone |-> <<>>, queued |-> <<>>,
     prevCoins |-> 0, hits |-> 0,
     overlaps |-> 0, prevLives |-> 0,
     invBefore |-> 0, boostAtHit |-> FALSE, physics |-> "none", spawned |-> "none",
     roll |-> "none", baseline |-> FALSE,
     removed |-> <<>>, prevPlayer |-> <<>>, prevPowerup |-> NoPowerup]

\* -------------------------------------------------------- background ----
\* A colour '#rrggbb' is held as the number its six hex digits denote.
RGB(r, g, b) == r * 65536 + g * 256 + b
Red(c) == c \div 65536
Green(c) == (c \div 256) % 256
Blue(c) == c % 256
Channels(c) == <<Red(c), Green(c), Blue(c)>>

\* BIOMES[i]: bgColor, accentColor, skyGradient[0], skyGradient[1]
BiomePalette(i) ==
    CASE i = 0 -> [bg |-> RGB(5, 5, 16), accent |-> RGB(0, 224, 255),
                   sky1 |-> RGB(0, 0, 0), sky2 |-> RGB(0, 16, 32)]
      [] i = 1 -> [bg |-> RGB(26, 5, 0), accent |-> RGB(255, 48, 0),
                   sky1 |-> RGB(16, 0, 0), sky2 |-> RGB(32, 5, 0)]
      [] i = 2 -> [bg |-> RGB(10, 0, 26), accent |-> RGB(189, 0, 255),
                   sky1 |-> RGB(5, 0, 16), sky2 |-> RGB(21, 0, 32)]
      [] OTHER -> [bg |-> RGB(0, 16, 0), accent |-> RGB(0, 255, 64),
                   sky1 |-> RGB(0, 0, 0), sky2 |-> RGB(0, 21, 5)]
BiomeShape(i) ==
    CASE i = 0 -> "city" [] i = 1 -> "wasteland" [] i = 2 -> "void" [] OTHER -> "core"
Slots == {"bg", "accent", "sky1", "sky2"}

\* the integer a shift or "| 0" makes of n / d (truncation toward zero)
ToInt(n, d) == IF n >= 0 THEN n \div d ELSE -((-n) \div d)
RECURSIVE HexLen(_)
HexLen(n) == IF n < 16 THEN 1 ELSE 1 + HexLen(n \div 16)
RECURSIVE Pow16(_)
Pow16(k) == IF k = 0 THEN 1 ELSE 16 * Pow16(k - 1)
\* n.toString(16).slice(1), read back by parseInt(.., 16)
SliceOne(n) == n % Pow16(HexLen(n) - 1)

\* a channel's "from + amount * (to - from)", in hundredths; amount is in
\* hundredths too (0.01 is 1)
MixTwice(from, to, amount) == 100 * from + 2 * 100 * (to - from)
Mix(from, to, amount) == 100 * from + amount * (to - from)

\* lerpColor(a, b, amount): red and green are cut to integers by their
\* shifts, blue goes into the sum with its fraction and the sum is cut by | 0
lerpColor(a, b, amount) ==
    LET rr == Mix(Red(a), Red(b), amount)
        rg == Mix(Green(a), Green(b), amount)
        rb == Mix(Blue(a), Blue(b), amount)
        whole == 16777216 + ToInt(rr, 100) * 65536 + ToInt(rg, 100) * 256
        \* (whole + rb / 100) | 0, the sum cut toward zero
        sum == IF whole + (rb \div 100) >= 0 THEN whole + (rb \div 100)
               ELSE whole - ((-rb) \div 100)
    IN  SliceOne(sum)

\* updateBackground, lines 476-481: the palette after one call
LerpPalette(pal, target) ==
    [bg |-> lerpColor(pal.bg, target.bg, LerpSpeed),
     accent |-> lerpColor(pal.accent, target.accent, LerpSpeed),
     sky1 |-> lerpColor(pal.sky1, target.sky1, LerpSpeed),
     sky2 |-> lerpColor(pal.sky2, target.sky2, LerpSpeed)]

\* the Math.random() values of one spawnBgEntity call, in 1/1000
Scale(rand, len) == (rand * len) \div 1000
NoStart == [given |-> FALSE, x |-> 0]
StartAt(x) == [given |-> TRUE, x |-> x]

\* spawnBgEntity(layer, startX)
spawnBgEntity(ents, size, biome, layer, start, roll) ==
    IF size.width = 0 THEN ents
    ELSE LET height == size.height
             x == IF start.given THEN start.x ELSE size.width + Scale(roll.x, 100 * Px)
             shapeType == BiomeShape(biome)
             ent ==
               CASE shapeType = "city" ->
                      LET w == 50 * Px + Scale(roll.w, 100 * Px)
                          h == (height * 2) \div 10 + Scale(roll.h, (height * 4) \div 10)
                          w1 == IF layer = 0 THEN w * 2 ELSE w
                          h1 == IF layer = 0 THEN (h * 15) \div 10 ELSE h
                      IN  [shape |-> "rect", w |-> w1, h |-> h1,
                           y |-> height - h1 + Scale(roll.y, 50 * Px)]
                 [] shapeType = "wasteland" ->
                      [shape |-> "spire", w |-> 60 * Px + Scale(roll.w, 120 * Px),
                       h |-> (height * 3) \div 10 + Scale(roll.h, (height * 4) \div 10),
                       y |-> height]
                 [] shapeType = "void" ->
                      LET w == 40 * Px + Scale(roll.w, 60 * Px)
                      IN  [shape |-> "hex", w |-> w, h |-> w, y |-> Scale(roll.y, height)]
                 [] OTHER ->
                      [shape |-> "pillar", w |-> 20 * Px + Scale(roll.w, 40 * Px),
                       h |-> height, y |-> 0]
         IN  Append(ents, [x |-> x, y |-> ent.y, w |-> ent.w, h |-> ent.h,
                           layer |-> layer, shape |-> ent.shape])

\* the loops "for (i < n) spawnBgEntity(layer, Math.random() * span)" of
\* resetGame and of the mount effect; rolls is the sequence of their random
\* numbers
RECURSIVE SpawnMany(_, _, _, _, _, _)
SpawnMany(ents, size, biome, layer, rolls, span) ==
    IF rolls = <<>> THEN ents
    ELSE SpawnMany(spawnBgEntity(ents, size, biome, layer,
                                 StartAt(Scale(Head(rolls).x, span)), Head(rolls)),
                   size, biome, layer, Tail(rolls), span)

\* updateBackground, lines 483-492: scroll, cull, count, top up
LayerCount(ents, layer) == Cardinality({i \in 1..Len(ents) : ents[i].layer = layer})
Scroll(ents, speed) ==
    [i \in 1..Len(ents) |->
        [ents[i] EXCEPT !.x = @ - (speed * (1 + 2 * ents[i].layer)) \div 10]]
OffLeft(ent) == ent.x + ent.w < BgCull
ScrollEntities(ents, size, biome, speed, roll0, roll1) ==
    LET moved == Scroll(ents, speed)
        kept == SelectSeq(moved, LAMBDA e : ~OffLeft(e))
        with0 == IF LayerCount(kept, 0) < MinLayer0
                 THEN spawnBgEntity(kept, size, biome, 0, NoStart, roll0) ELSE kept
    IN  IF LayerCount(kept, 1) < MinLayer1
        THEN spawnBgEntity(with0, size, biome, 1, NoStart, roll1) ELSE with0

\* the background and what the last call did to it: before is the palette and
\* gone the culled decorations of that call
NewBackdrop(world, pal, ents) ==
    [world |-> world, palette |-> pal, bgEntities |-> ents, speed |-> AmbientSpeed,
     op |-> "none", before |-> pal, target |-> pal, gone |-> <<>>, ticks |-> 0]

\* the random numbers of resetGame's spawn loops: "spread" puts the n
\* decorations of a layer at even distances, "paired" puts them two by two,
\* one pixel apart
Layouts == {"spread", "paired"}
LayoutRolls(layout, n) ==
    [i \in 1..n |->
        [x |-> IF layout = "spread" THEN ((i - 1) * 1000) \div n
               ELSE ((i - 1) \div 2) * 100 + ((i - 1) % 2),
         w |-> 500, h |-> 500, y |-> 500]]
ResetEntities(size, layout) ==
    SpawnMany(SpawnMany(<<>>, size, 0, 0, LayoutRolls(layout, ResetLayer0), 1000 * Px),
              size, 0, 1, LayoutRolls(layout, ResetLayer1), 1000 * Px)

\* resetGame's part on the background: the colours of biome 0 and fresh
\* decorations (where the background is followed at all)
ResetBackdrop(bd, size, layout) ==
    IF bd.world = "still" THEN bd
    ELSE [NewBackdrop(bd.world, BiomePalette(0), ResetEntities(size, layout))
            EXCEPT !.speed = bd.speed, !.op = "reset"]

\* ------------------------------------------------------ audio engine ----
\* AudioEngine.  Times are in milliseconds of the audio clock
\* (ctx.currentTime); 0.1 s is 100, the menu tempo 0.13 s is 130.  The clock
\* does not move while a handler runs.  timerID 0 is null; window.setTimeout
\* hands out ids from 1.  ctx is TRUE when the constructor found an
\* AudioContext class and FALSE when ctx stayed null.
Tracks == {"menu", "game"}
SfxTypes == {"jump", "coin", "crash", "powerup", "score"}
VoiceMethods == {"playDrum", "playLeadNote", "playBassNote", "playTone"}

NewAudioEngine(hasCtx) ==
    [ctx |-> hasCtx, isPlaying |-> FALSE, currentTrack |-> "none", step |-> 0,
     nextNoteTime |-> 0, timerID |-> 0]

\* The host of the engine.  played is the history of the steps scheduled since
\* the last start of a track: k the value of step, s the pattern index used,
\* at the start time given to the voices, voices the number of sound nodes
\* started.  t0 is the start time of that track's
\* first step.  sfx counts the nodes started outside the music, gains the
\* volume writes, and call describes the last call into the engine.
NoCall == [op |-> "none", arg |-> "none", before |-> NewAudioEngine(FALSE),
           timersBefore |-> {}, scheduled |-> 0, armed |-> FALSE]
NewHost(mode) ==
    [currentTime |-> 0, timers |-> {}, nextTimer |-> 1, mode |-> mode, ops |-> 0,
     sides |-> 0,
     played |-> <<>>, t0 |-> 0, sfx |-> 0, gains |-> 0, error |-> FALSE,
     call |-> NoCall]

\* playDrum, playLeadNote, playBassNote, playTone: the number of sound nodes
\* one call starts (none when the engine has no context)
playDrum(a) == IF ~a.ctx THEN 0 ELSE 1
playLeadNote(a) == IF ~a.ctx THEN 0 ELSE 1
playBassNote(a) == IF ~a.ctx THEN 0 ELSE 1
playTone(a) == IF ~a.ctx THEN 0 ELSE 1

Tempo(track) == IF track = "menu" THEN MenuTempo ELSE GameTempo

\* the voices of pattern index s of a track
StepVoices(a, s) ==
    LET on(c, n) == IF c THEN n ELSE 0
    IN  IF a.currentTrack = "menu"
        THEN on(s % 4 = 0, playDrum(a)) + on(s % 4 = 2, playDrum(a))
             + on(s % 6 = 0 \/ s % 3 = 0, playBassNote(a))
             + on(s = 0, playLeadNote(a)) + on(s = 14, playLeadNote(a))
        ELSE on(s % 8 = 0, playDrum(a)) + on(s % 8 = 4, playDrum(a))
             + on(s % 2 = 0, playDrum(a)) + on(s > 28, playDrum(a))
             + on(s % 2 = 0, playBassNote(a))
             + on(s \in {0, 6, 12, 14}, playLeadNote(a))

\* one pass of the scheduler's while loop
ScheduleStepShort(a, h) ==
    LET s == a.step % 16
    IN  [audio |-> [a EXCEPT !.nextNoteTime = @ + Tempo(a.currentTrack),
                             !.step = @ + 1],
         host |-> [h EXCEPT !.played =
                      Append(@, [k |-> a.step, s |-> s, at |-> a.nextNoteTime,
                                 track |-> a.currentTrack,
                                 voices |-> StepVoices(a, s)])]]

ScheduleStep(a, h) ==
    LET s == a.step % PatternLength
    IN  [audio |-> [a EXCEPT !.nextNoteTime = @ + Tempo(a.currentTrack),
                             !.step = @ + 1],
         host |-> [h EXCEPT !.played =
                      Append(@, [k |-> a.step, s |-> s, at |-> a.nextNoteTime,
                                 track |-> a.currentTrack,
                                 voices |-> StepVoices(a, s)])]]

\* the while loop of scheduler(); with currentTrack 'none' the loop body does
\* nothing and the loop does not end, recorded as error
SchedulerLoopOnce(a, h) ==
    IF a.nextNoteTime < h.currentTime + Lookahead
    THEN IF a.currentTrack \in Tracks
         THEN ScheduleStep(a, h)
         ELSE [audio |-> a, host |-> [h EXCEPT !.error = TRUE]]
    ELSE [audio |-> a, host |-> h]

RECURSIVE SchedulerLoop(_, _)
SchedulerLoop(a, h) ==
    IF a.nextNoteTime < h.currentTime + Lookahead
    THEN IF a.currentTrack \in Tracks
         THEN LET r == ScheduleStep(a, h) IN SchedulerLoop(r.audio, r.host)
         ELSE [audio |-> a, host |-> [h EXCEPT !.error = TRUE]]
    ELSE [audio |-> a, host |-> h]

\* window.setTimeout(this.scheduler, 25) and clearTimeout(id)
setTimeout(h) ==
    [h EXCEPT !.timers = @ \cup {[id |-> h.nextTimer, due |-> h.currentTime + TimerDelay]},
              !.nextTimer = @ + 1]
clearTimeout(h, id) == [h EXCEPT !.timers = {t \in @ : t.id # id}]

scheduler(a, h) ==
    IF ~a.ctx \/ ~a.isPlaying THEN [audio |-> a, host |-> h]
    ELSE LET r == SchedulerLoop(a, h)
         IN  [audio |-> [r.audio EXCEPT !.timerID = h.nextTimer],
              host |-> setTimeout(r.host)]

playTrackKeepStep(a, h, track) ==
    IF a.currentTrack = track /\ a.isPlaying THEN [audio |-> a, host |-> h]
    ELSE IF ~a.ctx THEN [audio |-> a, host |-> h]
    ELSE scheduler([a EXCEPT !.isPlaying = TRUE, !.currentTrack = track,
                             !.nextNoteTime = h.currentTime + StartLead],
                   IF a.timerID # 0 THEN clearTimeout(h, a.timerID) ELSE h)

playTrackNoClear(a, h, track) ==
    IF a.currentTrack = track /\ a.isPlaying THEN [audio |-> a, host |-> h]
    ELSE IF ~a.ctx THEN [audio |-> a, host |-> h]
    ELSE scheduler([a EXCEPT !.isPlaying = TRUE, !.currentTrack = track, !.step = 0,
                             !.nextNoteTime = h.currentTime + StartLead], h)

playTrackNoCtx(a, h, track) ==
    IF a.currentTrack = track /\ a.isPlaying THEN [audio |-> a, host |-> h]
    ELSE scheduler([a EXCEPT !.isPlaying = TRUE, !.currentTrack = track, !.step = 0,
                             !.nextNoteTime = h.currentTime + StartLead],
                   IF a.timerID # 0 THEN clearTimeout(h, a.timerID) ELSE h)

playTrack(a, h, track) ==
    IF a.currentTrack = track /\ a.isPlaying THEN [audio |-> a, host |-> h]
    ELSE IF ~a.ctx THEN [audio |-> a, host |-> h]
    ELSE scheduler([a EXCEPT !.isPlaying = TRUE, !.currentTrack = track, !.step = 0,
                             !.nextNoteTime = h.currentTime + StartLead],
                   IF a.timerID # 0 THEN clearTimeout(h, a.timerID) ELSE h)

\* stopMusic that leaves isPlaying set
stopMusicStillPlaying(a, h) ==
    [audio |-> [a EXCEPT !.currentTrack = "none"],
     host |-> IF a.timerID # 0 THEN clearTimeout(h, a.timerID) ELSE h]

stopMusic(a, h) ==
    [audio |-> [a EXCEPT !.isPlaying = FALSE, !.currentTrack = "none"],
     host |-> IF a.timerID # 0 THEN clearTimeout(h, a.timerID) ELSE h]

\* playSfx(type): 'powerup' plays three tones and 'score' two; the others
\* start the one oscillator made at the top
SfxVoices(a, type) ==
    CASE type = "powerup" -> 3 * playTone(a)
      [] type = "score" -> 2 * playTone(a)
      [] OTHER -> 1

playSfxRestart(a, h, type) ==
    IF ~a.ctx THEN [audio |-> a, host |-> h]
    ELSE [audio |-> [a EXCEPT !.nextNoteTime = h.currentTime],
          host |-> [h EXCEPT !.sfx = @ + SfxVoices(a, type)]]

playSfx(a, h, type) ==
    IF ~a.ctx THEN [audio |-> a, host |-> h]
    ELSE [audio |-> a, host |-> [h EXCEPT !.sfx = @ + SfxVoices(a, type)]]

\* setVolumes(music, sfx): writes the gains that exist
setVolumes(a, h) ==
    IF ~a.ctx THEN [audio |-> a, host |-> h]
    ELSE [audio |-> a, host |-> [h EXCEPT !.gains = @ + 1]]

\* --------------------------------------------------------------- Init ---
RunInit ==
    /\ gameState = "MENU"
    /\ player = [x |-> 100 * Px, y |-> 0, width |-> PlayerSize, height |-> PlayerSize,
                 dy |-> 0, gravity |-> GRAVITY_FORCE, isGrounded |-> FALSE]
    /\ drone = [y |-> 0, message |-> "null", messageTimer |-> 0, isSynced |-> FALSE,
                accumulatedScore |-> 0]
    /\ lives = StartLives
    /\ obstacles = <<>>
    /\ pickups = <<>>
    /\ powerup = NoPowerup
    /\ invincibility = 0
    /\ hudShake = 0
    /\ coins = 0
    /\ gameSpeed = INITIAL_SPEED
    /\ distanceScore = 0
    /\ level = 0
    /\ frames = 0
    /\ finalScore = 0
    /\ collectedCoins = 0
    /\ inventoryCoins = SavedCoins
    /\ highScore = SavedHighScore
    /\ env = [mode |-> "pilot", runs |-> 0, spawns |-> 0, flips |-> 0, pauses |-> 0,
              paused |-> 0, resizes |-> 0, nextId |-> 1]
    /\ hist = [n |-> 0, mult |-> 0, afterBoost |-> FALSE, startCoins |-> SavedCoins]
    /\ gameOverCalls = 0
    /\ last = LastNone

\* the component as mounted, its background left as first painted
GameInit ==
    /\ RunInit
    /\ canvasSize = StartView
    /\ score = 0
    /\ currentBiomeIndex = 0
    /\ backdrop = NewBackdrop("still", BiomePalette(0), <<>>)

\* the simulation's initial state, with the audio engine as constructed
Init ==
    /\ GameInit
    /\ audio = NewAudioEngine(TRUE)
    /\ host = NewHost("steady")

\* ------------------------------------------------------------ actions ---
\* updateGame(width, height) for one spawn outcome; each step's result is
\* bound once, in the order the code computes it
UpdateGame(roll) ==
    LET height == canvasSize.height
        inv1 == IF invincibility > 0 THEN invincibility - 1 ELSE invincibility
        shake1 == IF hudShake > 0 THEN hudShake - 1 ELSE hudShake
        fr1 == frames + 1
    IN
    \E ex \in {ExpireStep(powerup, gameSpeed, drone)} :
    \E ph \in {PhysicsStep(player, ex.powerup, ex.gameSpeed, height)} :
    \E dr1 \in {WispStep(ex.drone, obstacles, ph.player, frames, height)} :
    \E sy \in {SyncStep(dr1, ph.player, ex.powerup, score)} :
    \E di \in {DistanceStep(distanceScore + ph.gameSpeed, ex.powerup, sy.score)} :
    \E lv \in {LevelStep(di.score, level, sy.drone)} :
    \E obs1 \in {IF roll.kind = "obstacle"
                 THEN spawnObstacle(obstacles, canvasSize, ex.powerup, roll, env.nextId)
                 ELSE obstacles} :
    \E pks1 \in {IF roll.kind = "pickup"
                 THEN spawnPickup(pickups, canvasSize, roll, env.nextId)
                 ELSE pickups} :
    \E pp \in {PickupPass(pks1, ph.player, ex.powerup, coins, ph.gameSpeed)} :
    \E op \in {ObstaclePass(
                  [obstacles |-> obs1, toRemove |-> <<>>, removed |-> <<>>,
                   score |-> di.score, passBonus |-> 0, lives |-> lives,
                   hits |-> 0, invincibility |-> inv1, hudShake |-> shake1,
                   coins |-> pp.coins, gameState |-> gameState,
                   finalScore |-> finalScore, collectedCoins |-> collectedCoins,
                   inventoryCoins |-> inventoryCoins,
                   inventoryAtRender |-> inventoryCoins,
                   highScore |-> highScore, gameOverCalls |-> gameOverCalls],
                  ph.player, pp.powerup, ph.gameSpeed)} :
        /\ player' = ph.player
        /\ gameSpeed' = ph.gameSpeed
        /\ currentBiomeIndex' = UpdateBackground(score)
        /\ drone' = lv.drone
        /\ level' = lv.level
        /\ distanceScore' = di.distanceScore
        /\ frames' = fr1
        /\ pickups' = pp.pickups
        /\ powerup' = pp.powerup
        /\ coins' = pp.coins
        /\ obstacles' = op.obstacles
        /\ score' = op.score
        /\ lives' = op.lives
        /\ invincibility' = op.invincibility
        /\ hudShake' = op.hudShake
        /\ gameState' = op.gameState
        /\ finalScore' = op.finalScore
        /\ collectedCoins' = op.collectedCoins
        /\ inventoryCoins' = op.inventoryCoins
        /\ highScore' = op.highScore
        /\ gameOverCalls' = op.gameOverCalls
        /\ env' = [env EXCEPT
                      !.spawns = IF IsSpawnFrame(fr1, ph.gameSpeed) /\ @ < SpawnFrames(env.mode)
                                 THEN @ + 1 ELSE @,
                      !.nextId = IF roll.kind = "none" THEN @ ELSE @ + 1]
        /\ hist' = [n |-> IF IsSynced(ph.player, dr1) /\ ex.powerup.type # "BOOST"
                           THEN hist.n + 1 ELSE 0,
                    mult |-> IF IsSynced(ph.player, dr1) /\ ex.powerup.type # "BOOST"
                             THEN hist.mult + (IF ex.powerup.type = "MULTIPLIER" THEN 1 ELSE 0)
                             ELSE 0,
                    afterBoost |-> /\ ex.expired = "BOOST" \/ hist.afterBoost
                                   /\ pp.powerup.type # "BOOST",
                    startCoins |-> hist.startCoins]
        /\ last' = [op |-> "tick", prevAcc |-> distanceScore, distAdded |-> di.added,
                    prevBucket |-> drone.accumulatedScore, syncBonus |-> sy.bonus,
                    synced |-> IsSynced(ph.player, dr1),
                    prevRun |-> [n |-> hist.n, mult |-> hist.mult],
                    passBonus |-> op.passBonus,
                    prevScore |-> score, expired |-> ex.expired, slot |-> ex.powerup,
                    taken |-> pp.taken, gone |-> pp.gone, queued |-> pp.toRemove,
                    prevCoins |-> coins,
                    hits |-> op.hits,
                    overlaps |-> Cardinality({i \in 1..Len(obs1) :
                                    HitsPlayer([obs1[i] EXCEPT !.x = @ - ph.gameSpeed],
                                               ph.player)}),
                    prevLives |-> lives, invBefore |-> inv1,
                    boostAtHit |-> pp.powerup.type = "BOOST",
                    physics |-> ph.branch,
                    spawned |-> IF roll.kind = "obstacle" /\ Len(obs1) > Len(obstacles)
                                THEN "obstacle"
                                ELSE IF roll.kind = "pickup" /\ Len(pks1) > Len(pickups)
                                THEN "pickup" ELSE "none",
                    roll |-> roll.kind,
                    baseline |-> ex.expired = "BOOST" \/ hist.afterBoost,
                    removed |-> op.removed, prevPlayer |-> player,
                    prevPowerup |-> powerup]
        /\ UNCHANGED <<canvasSize, audio, host, backdrop>>

\* loop(), PLAYING: one updateGame; the spawn frame draws its random numbers
Tick ==
    /\ gameState = "PLAYING"
    /\ frames < Horizon(env.mode)
    /\ LET speed1 == PhysicsStep(player, ExpireStep(powerup, gameSpeed, drone).powerup,
                                 ExpireStep(powerup, gameSpeed, drone).gameSpeed,
                                 canvasSize.height).gameSpeed
       IN  IF IsSpawnFrame(frames + 1, speed1) /\ env.spawns < SpawnFrames(env.mode)
           THEN \E roll \in RollsAt(env) : UpdateGame(roll)
           ELSE UpdateGame(NoRoll)

\* loop(), MENU / STORE / SETTINGS / PAUSED: the ambient background tick
Ambient ==
    /\ \/ gameState = "PAUSED" /\ env.paused < MaxPauseFrames
       \/ gameState \in {"MENU", "STORE", "SETTINGS"} /\ frames < MenuFrames
    /\ frames' = frames + 1
    /\ gameSpeed' = AmbientSpeed
    /\ currentBiomeIndex' = UpdateBackground(score)
    /\ env' = [env EXCEPT !.paused = IF gameState = "PAUSED" THEN @ + 1 ELSE @]
    /\ last' = [LastNone EXCEPT !.op = "ambient"]
    /\ UNCHANGED <<gameState, canvasSize, player, drone, lives, obstacles, pickups,
                   powerup, invincibility, hudShake, coins, score, distanceScore, level,
                   finalScore, collectedCoins, inventoryCoins, highScore, hist,
                   gameOverCalls, audio, host, backdrop>>

\* resetGame that starts the run at the speed the last one ended with
resetGameKeepSpeed(mode) ==
    /\ player' = [x |-> PlayerX, y |-> canvasSize.height \div 2, width |-> PlayerSize,
                  height |-> PlayerSize, dy |-> 0, gravity |-> GRAVITY_FORCE,
                  isGrounded |-> FALSE]
    /\ drone' = [y |-> canvasSize.height \div 2, message |-> "null", messageTimer |-> 0,
                 isSynced |-> FALSE, accumulatedScore |-> 0]
    /\ currentBiomeIndex' = 0
    /\ obstacles' = <<>>
    /\ pickups' = <<>>
    /\ powerup' = NoPowerup
    /\ invincibility' = 0
    /\ hudShake' = 0
    /\ gameSpeed' = gameSpeed
    /\ score' = 0
    /\ distanceScore' = 0
    /\ coins' = 0
    /\ level' = 0
    /\ frames' = 0
    /\ lives' = StartLives
    /\ finalScore' = 0
    /\ collectedCoins' = 0
    /\ gameState' = "PLAYING"
    /\ env' = [mode |-> mode, runs |-> env.runs + 1, spawns |-> 0, flips |-> 0,
               pauses |-> 0, paused |-> 0, resizes |-> 0, nextId |-> 1]
    /\ hist' = [n |-> 0, mult |-> 0, afterBoost |-> FALSE,
                startCoins |-> inventoryCoins]
    /\ gameOverCalls' = 0
    /\ last' = [LastNone EXCEPT !.op = "reset"]
    /\ \E layout \in Layouts : backdrop' = ResetBackdrop(backdrop, canvasSize, layout)
    /\ UNCHANGED <<canvasSize, inventoryCoins, highScore, audio, host>>

\* resetGame(); mode is the kind of environment the new run gets
resetGame(mode) ==
    /\ player' = [x |-> PlayerX, y |-> canvasSize.height \div 2, width |-> PlayerSize,
                  height |-> PlayerSize, dy |-> 0, gravity |-> GRAVITY_FORCE,
                  isGrounded |-> FALSE]
    /\ drone' = [y |-> canvasSize.height \div 2, message |-> "null", messageTimer |-> 0,
                 isSynced |-> FALSE, accumulatedScore |-> 0]
    /\ currentBiomeIndex' = 0
    /\ obstacles' = <<>>
    /\ pickups' = <<>>
    /\ powerup' = NoPowerup
    /\ invincibility' = 0
    /\ hudShake' = 0
    /\ gameSpeed' = INITIAL_SPEED
    /\ score' = 0
    /\ distanceScore' = 0
    /\ coins' = 0
    /\ level' = 0
    /\ frames' = 0
    /\ lives' = StartLives
    /\ finalScore' = 0
    /\ collectedCoins' = 0
    /\ gameState' = "PLAYING"
    /\ env' = [mode |-> mode, runs |-> env.runs + 1, spawns |-> 0, flips |-> 0,
               pauses |-> 0, paused |-> 0, resizes |-> 0, nextId |-> 1]
    /\ hist' = [n |-> 0, mult |-> 0, afterBoost |-> FALSE,
                startCoins |-> inventoryCoins]
    /\ gameOverCalls' = 0
    /\ last' = [LastNone EXCEPT !.op = "reset"]
    /\ \E layout \in Layouts : backdrop' = ResetBackdrop(backdrop, canvasSize, layout)
    /\ UNCHANGED <<canvasSize, inventoryCoins, highScore, audio, host>>

\* the gravity flip of handleInput (PLAYING, no BOOST)
Flip(p) == [p EXCEPT !.gravity = -p.gravity, !.isGrounded = FALSE]

\* Trigger that flips under BOOST too
TriggerAlways(p, pu) == Flip(p)

\* handleInput() while PLAYING: a no-op under BOOST, else the flip
Trigger(p, pu) == IF pu.type = "BOOST" THEN p ELSE Flip(p)

\* handleInput(), MENU or GAME_OVER (also the menu's START button): start a run
HandleInputStart ==
    /\ gameState \in {"MENU", "GAME_OVER"}
    /\ env.runs < MaxRuns
    /\ \E mode \in ModesOf(env.runs) : resetGame(mode)

\* the game-over screen's RETRY button: resetGame()
RetryButton ==
    /\ gameState = "GAME_OVER"
    /\ env.runs < MaxRuns
    /\ \E mode \in ModesOf(env.runs) : resetGame(mode)

\* handleInput(), PLAYING
HandleInputPlaying ==
    /\ gameState = "PLAYING"
    /\ \/ powerup.type = "BOOST"
       \/ env.mode = "pilot" /\ env.flips < MaxFlips
       \/ env.mode = "drift" /\ last.expired = "BOOST" /\ env.flips < MaxFlips
    /\ player' = Trigger(player, powerup)
    /\ env' = [env EXCEPT !.flips = IF powerup.type = "BOOST" THEN @ ELSE @ + 1]
    /\ last' = [LastNone EXCEPT !.op = "trigger", !.prevPlayer = player,
                                !.prevPowerup = powerup, !.baseline = hist.afterBoost]
    /\ UNCHANGED <<gameState, canvasSize, drone, lives, obstacles, pickups, powerup,
                   invincibility, hudShake, coins, gameSpeed, score, distanceScore,
                   level, frames, currentBiomeIndex, finalScore, collectedCoins,
                   inventoryCoins, highScore, hist, gameOverCalls, audio, host,
                   backdrop>>

\* resize(): the canvas takes its parent's size
Resize ==
    /\ gameState = "PLAYING"
    /\ env.mode \in {"shift", "narrow"} /\ env.resizes < MaxResizes
    /\ last.op = "reset" \/ (last.op = "tick" /\ last.taken # <<>>)
    /\ \E size \in ViewsOf(env.mode) \ {canvasSize} : canvasSize' = size
    /\ env' = [env EXCEPT !.resizes = @ + 1]
    /\ last' = [LastNone EXCEPT !.op = "resize"]
    /\ UNCHANGED <<gameState, player, drone, lives, obstacles, pickups, powerup,
                   invincibility, hudShake, coins, gameSpeed, score, distanceScore,
                   level, frames, currentBiomeIndex, finalScore, collectedCoins,
                   inventoryCoins, highScore, hist, gameOverCalls, audio, host,
                   backdrop>>

\* a handler that only calls setGameState(to)
SetGameState(to, what) ==
    /\ gameState' = to
    /\ last' = [LastNone EXCEPT !.op = what]
    /\ UNCHANGED <<canvasSize, player, drone, lives, obstacles, pickups, powerup,
                   invincibility, hudShake, coins, gameSpeed, score, distanceScore,
                   level, frames, currentBiomeIndex, finalScore, collectedCoins,
                   inventoryCoins, highScore, hist, gameOverCalls, audio, host,
                   backdrop>>

\* the Escape key: pause, resume, or leave the store / the settings
EscapePause ==
    /\ gameState = "PLAYING"
    /\ env.mode = "crowd" /\ env.pauses < MaxPauses /\ last.spawned = "obstacle"
    /\ env' = [env EXCEPT !.pauses = @ + 1]
    /\ SetGameState("PAUSED", "escape")
EscapeResume ==
    /\ gameState = "PAUSED"
    /\ UNCHANGED env
    /\ SetGameState("PLAYING", "escape")
\* an Escape key that resumes the run from the store and the settings too
EscapeBackResume ==
    /\ gameState \in {"STORE", "SETTINGS"}
    /\ UNCHANGED env
    /\ SetGameState("PLAYING", "escape")
EscapeBack ==
    /\ gameState \in {"STORE", "SETTINGS"}
    /\ UNCHANGED env
    /\ SetGameState("MENU", "escape")

\* the menu's STORE and SETTINGS buttons, and their screens' back buttons
StoreButton ==
    /\ gameState = "MENU"
    /\ UNCHANGED env
    /\ SetGameState("STORE", "button")
SettingsButton ==
    /\ gameState = "MENU"
    /\ UNCHANGED env
    /\ SetGameState("SETTINGS", "button")
BackButton ==
    /\ gameState \in {"STORE", "SETTINGS"}
    /\ UNCHANGED env
    /\ SetGameState("MENU", "button")

\* the pause screen's RESUME and QUIT buttons
ResumeButton ==
    /\ gameState = "PAUSED"
    /\ UNCHANGED env
    /\ SetGameState("PLAYING", "button")
QuitButton ==
    /\ gameState = "PAUSED"
    /\ UNCHANGED env
    /\ SetGameState("MENU", "quit")

\* the game-over screen's "Return to Menu"
MenuButton ==
    /\ gameState = "GAME_OVER"
    /\ UNCHANGED env
    /\ SetGameState("MENU", "button")

Next ==
    \/ Tick
    \/ Ambient
    \/ HandleInputStart
    \/ HandleInputPlaying
    \/ RetryButton
    \/ Resize
    \/ EscapePause
    \/ EscapeResume
    \/ EscapeBack
    \/ StoreButton
    \/ SettingsButton
    \/ BackButton
    \/ ResumeButton
    \/ QuitButton
    \/ MenuButton

Spec == Init /\ [][Next]_vars

\* ------------------------------------------------- the audio engine -----
\* The engine on its own: the calls the component makes into it (playTrack
\* from the music effect, stopMusic from QUIT and unmount, playSfx from the
\* simulation and the menus, setVolumes from the settings effect), direct
\* calls of its voice methods, its timer callback, and the passing of time.
\* A "steady" host fires each timer when it is due and the component calls
\* playTrack and stopMusic at mount only; a "jitter" host may let a timer wait
\* while the clock runs on, and playTrack and stopMusic come at any time; a
\* "mix" host fires each timer when it is due and every method is called at
\* any time.  The simulation's state stays as constructed.
AudioWorlds == {[ctx |-> TRUE, mode |-> "steady"], [ctx |-> TRUE, mode |-> "jitter"],
                [ctx |-> TRUE, mode |-> "mix"], [ctx |-> FALSE, mode |-> "mix"]}
Delays(mode) == {TimerDelay}
AudioHorizon(mode) ==
    CASE mode = "steady" -> SteadyHorizon
      [] mode = "jitter" -> JitterHorizon
      [] OTHER -> MixHorizon

AudioInit ==
    /\ GameInit
    /\ \E w \in AudioWorlds :
          /\ audio = NewAudioEngine(w.ctx)
          /\ host = NewHost(w.mode)

\* the bookkeeping common to the calls: r is what the method returned from
\* the host state h0
AudioCall(op, arg, h0, r, counted) ==
    /\ audio' = r.audio
    /\ host' = [r.host EXCEPT
                  !.ops = IF counted = "music" THEN @ + 1 ELSE @,
                  !.sides = IF counted = "side" THEN @ + 1 ELSE @,
                  !.call = [op |-> op, arg |-> arg, before |-> audio,
                            timersBefore |-> host.timers,
                            scheduled |-> Len(r.host.played) - Len(h0.played),
                            armed |-> r.host.nextTimer # h0.nextTimer]]
    /\ UNCHANGED gameVars

CanCall ==
    IF host.mode = "steady" THEN host.currentTime = 0 /\ host.ops < SteadyOps
    ELSE host.ops < MaxAudioOps
CanSide == host.mode = "mix" /\ host.sides < MaxSideOps

\* audio.playTrack(track); a call that starts the track opens a new history
PlayTrack ==
    /\ CanCall
    /\ \E track \in Tracks :
          LET starts == audio.ctx /\ ~(audio.currentTrack = track /\ audio.isPlaying)
              h0 == IF starts
                    THEN [host EXCEPT !.played = <<>>,
                                      !.t0 = host.currentTime + StartLead]
                    ELSE host
          IN  AudioCall("playTrack", track, h0, playTrack(audio, h0, track), "music")

StopMusic ==
    /\ CanCall
    /\ AudioCall("stopMusic", "none", host, stopMusic(audio, host), "music")

PlaySfx ==
    /\ CanSide
    /\ \E type \in SfxTypes :
          AudioCall("playSfx", type, host, playSfx(audio, host, type), "side")

SetVolumes ==
    /\ CanSide
    /\ AudioCall("setVolumes", "none", host, setVolumes(audio, host), "side")

\* a direct call of playDrum, playLeadNote, playBassNote or playTone
PlayVoice ==
    /\ CanSide
    /\ \E m \in VoiceMethods :
          LET n == CASE m = "playDrum" -> playDrum(audio)
                     [] m = "playLeadNote" -> playLeadNote(audio)
                     [] m = "playBassNote" -> playBassNote(audio)
                     [] OTHER -> playTone(audio)
          IN  AudioCall(m, "none", host,
                        [audio |-> audio, host |-> [host EXCEPT !.sfx = @ + n]], "side")

\* the host runs a timer that is due: the scheduler callback
TimerFires ==
    \E t \in host.timers :
       /\ t.due <= host.currentTime
       /\ LET h0 == [host EXCEPT !.timers = @ \ {t}]
          IN  AudioCall("scheduler", "timer", h0, scheduler(audio, h0), "timer")

\* the audio clock moves on
Advance ==
    /\ \E d \in Delays(host.mode) :
          /\ host.currentTime + d <= AudioHorizon(host.mode)
          /\ host' = [host EXCEPT !.currentTime = @ + d,
                                  !.call = [NoCall EXCEPT !.op = "advance"]]
    /\ host.mode # "jitter" => \A t \in host.timers : t.due > host.currentTime
    /\ UNCHANGED <<audio, gameVars>>

AudioNext ==
    \/ PlayTrack
    \/ StopMusic
    \/ PlaySfx
    \/ SetVolumes
    \/ PlayVoice
    \/ TimerFires
    \/ Advance

AudioSpec == AudioInit /\ [][AudioNext]_vars

\* ---------------------------------------------------- the background ----
\* updateBackground on its own.  In a "palette" world the viewport is not
\* sized, so there are no decorations, and the palette starts from any of
\* StartPalettes under any biome; in a "decor" world the decorations are as
\* resetGame's loops left them and scroll at one of BgSpeeds for up to BgTicks
\* calls.  The score, and with it the selected biome, stays as it is.
White == RGB(255, 255, 255)
StartPalettes ==
    {BiomePalette(i) : i \in 0..3}
    \cup {[bg |-> White, accent |-> White, sky1 |-> White, sky2 |-> White],
          [bg |-> 0, accent |-> 0, sky1 |-> 0, sky2 |-> 0],
          [bg |-> RGB(200, 100, 0), accent |-> RGB(0, 100, 200),
           sky1 |-> RGB(99, 100, 101), sky2 |-> RGB(255, 0, 128)]}
BiomeScores == {BiomeThreshold(i) : i \in 0..3}
BgSpeeds == {AmbientSpeed, INITIAL_SPEED, MAX_SPEED}
\* the random numbers of a top-up spawn
BgRolls == {[x |-> r, w |-> r, h |-> r, y |-> r] : r \in {0, 990}}

BackgroundInit ==
    /\ RunInit
    /\ audio = NewAudioEngine(TRUE)
    /\ host = NewHost("steady")
    /\ score \in BiomeScores
    /\ currentBiomeIndex = 0
    /\ \/ /\ canvasSize = [width |-> 0, height |-> 0]
          /\ \E pal \in StartPalettes :
                backdrop = NewBackdrop("palette", pal, <<>>)
       \/ /\ canvasSize \in {v \in ViewSizes : v.width # 0}
          /\ \E layout \in Layouts, speed \in BgSpeeds :
                backdrop = [NewBackdrop("decor", BiomePalette(0),
                                        ResetEntities(canvasSize, layout))
                              EXCEPT !.speed = speed]

\* one updateBackground(speed) call
BgTick ==
    /\ backdrop.world # "still"
    /\ backdrop.world = "decor" => backdrop.ticks < BgTicks
    /\ \E roll0 \in BgRolls, roll1 \in BgRolls :
          LET targetIndex == UpdateBackground(score)
              target == BiomePalette(targetIndex)
          IN  /\ currentBiomeIndex' = targetIndex
              /\ backdrop' =
                    [backdrop EXCEPT
                        !.palette = LerpPalette(backdrop.palette, target),
                        !.bgEntities = ScrollEntities(backdrop.bgEntities, canvasSize,
                                                      targetIndex, backdrop.speed,
                                                      roll0, roll1),
                        !.op = "tick",
                        !.before = backdrop.palette,
                        !.target = target,
                        !.gone = SelectSeq(Scroll(backdrop.bgEntities, backdrop.speed),
                                           OffLeft),
                        !.ticks = IF backdrop.world = "decor" THEN @ + 1 ELSE @]
    /\ UNCHANGED <<gameState, canvasSize, player, drone, lives, obstacles, pickups,
                   powerup, invincibility, hudShake, coins, gameSpeed, score,
                   distanceScore, level, frames, finalScore, collectedCoins,
                   inventoryCoins, highScore, env, hist, gameOverCalls, last, audio,
                   host>>

\* resetGame() while the background is followed (START or RETRY)
BgRestart ==
    /\ backdrop.world # "still"
    /\ env.runs < MaxRuns
    /\ resetGame("idle")

BackgroundNext == BgTick \/ BgRestart

BackgroundSpec == BackgroundInit /\ [][BackgroundNext]_vars

\* ------------------------------------------- one obstacle crossing ------
\* An obstacle alone, from spawnObstacle to its removal, at the constant
\* speed INITIAL_SPEED (8 px per tick), on viewports of every width modulo 8
\* and with obstacles of several widths; the player stays on the floor.
ScrollWidths == 200..207
ScrollViews == {[width |-> w * Px, height |-> h * Px] : w \in ScrollWidths, h \in {100, 200}}
ScrollRolls ==
    {[kind |-> "obstacle", isTop |-> TRUE, block |-> b, hRand |-> 0, wRand |-> r] :
        b \in BOOLEAN, r \in {0, 500, 999}}

ScrollInit ==
    /\ gameState = "PLAYING"
    /\ canvasSize \in ScrollViews
    /\ player = [x |-> PlayerX, y |-> canvasSize.height - PlayerSize, width |-> PlayerSize,
                 height |-> PlayerSize, dy |-> 0, gravity |-> GRAVITY_FORCE,
                 isGrounded |-> TRUE]
    /\ drone = [y |-> canvasSize.height \div 2, message |-> "null", messageTimer |-> 0,
                isSynced |-> FALSE, accumulatedScore |-> 0]
    /\ lives = StartLives
    /\ obstacles = <<>>
    /\ pickups = <<>>
    /\ powerup = NoPowerup
    /\ invincibility = 0
    /\ hudShake = 0
    /\ coins = 0
    /\ gameSpeed = INITIAL_SPEED
    /\ score = 0
    /\ distanceScore = 0
    /\ level = 0
    /\ frames = 0
    /\ currentBiomeIndex = 0
    /\ finalScore = 0
    /\ collectedCoins = 0
    /\ inventoryCoins = SavedCoins
    /\ highScore = SavedHighScore
    /\ env = [mode |-> "scroll", runs |-> 1, spawns |-> 0, flips |-> 0, pauses |-> 0,
              paused |-> 0, resizes |-> 0, nextId |-> 1]
    /\ hist = [n |-> 0, mult |-> 0, afterBoost |-> FALSE, startCoins |-> SavedCoins]
    /\ gameOverCalls = 0
    /\ last = LastNone
    /\ audio = NewAudioEngine(TRUE)
    /\ host = NewHost("steady")
    /\ backdrop = NewBackdrop("still", BiomePalette(0), <<>>)

\* spawnObstacle(), once
ScrollSpawn ==
    /\ env.mode = "scroll" /\ env.spawns = 0
    /\ \E roll \in ScrollRolls :
          obstacles' = spawnObstacle(obstacles, canvasSize, powerup, roll, env.nextId)
    /\ env' = [env EXCEPT !.spawns = 1, !.nextId = @ + 1]
    /\ last' = [LastNone EXCEPT !.op = "spawn", !.spawned = "obstacle"]
    /\ UNCHANGED <<gameState, canvasSize, player, drone, lives, pickups, powerup,
                   invincibility, hudShake, coins, gameSpeed, score, distanceScore,
                   level, frames, currentBiomeIndex, finalScore, collectedCoins,
                   inventoryCoins, highScore, hist, gameOverCalls, audio, host,
                   backdrop>>

\* the obstacle loop of one updateGame tick (lines 853-873) at the speed kept
ScrollTick ==
    /\ env.mode = "scroll" /\ obstacles # <<>>
    /\ \E op \in {ObstaclePass(
                  [obstacles |-> obstacles, toRemove |-> <<>>, removed |-> <<>>,
                   score |-> score, passBonus |-> 0, lives |-> lives,
                   hits |-> 0, invincibility |-> invincibility, hudShake |-> hudShake,
                   coins |-> coins, gameState |-> gameState,
                   finalScore |-> finalScore, collectedCoins |-> collectedCoins,
                   inventoryCoins |-> inventoryCoins,
                   inventoryAtRender |-> inventoryCoins,
                   highScore |-> highScore, gameOverCalls |-> gameOverCalls],
                  player, powerup, gameSpeed)} :
          /\ obstacles' = op.obstacles
          /\ score' = op.score
          /\ lives' = op.lives
          /\ invincibility' = op.invincibility
          /\ hudShake' = op.hudShake
          /\ gameState' = op.gameState
          /\ finalScore' = op.finalScore
          /\ collectedCoins' = op.collectedCoins
          /\ inventoryCoins' = op.inventoryCoins
          /\ highScore' = op.highScore
          /\ gameOverCalls' = op.gameOverCalls
          /\ last' = [LastNone EXCEPT !.op = "scroll", !.removed = op.removed,
                                      !.passBonus = op.passBonus, !.hits = op.hits]
    /\ frames' = frames + 1
    /\ UNCHANGED <<canvasSize, player, drone, pickups, powerup, coins, gameSpeed,
                   distanceScore, level, currentBiomeIndex, env, hist, audio, host,
                   backdrop>>

ScrollNext == ScrollSpawn \/ ScrollTick

ScrollSpec == ScrollInit /\ [][ScrollNext]_vars

\* ------------------------------------------------- pickups on a trail ----
\* A run on a window 1000 px wide, where a pickup is still on its way when
\* the next one spawns: the state resetGame leaves, then updateGame ticks
\* whose spawn frames draw a COIN or a MAGNET, high or on the player's path.
TrailInit ==
    /\ gameState = "PLAYING"
    /\ canvasSize = TrailView
    /\ player = [x |-> PlayerX, y |-> canvasSize.height \div 2, width |-> PlayerSize,
                 height |-> PlayerSize, dy |-> 0, gravity |-> GRAVITY_FORCE,
                 isGrounded |-> FALSE]
    /\ drone = [y |-> canvasSize.height \div 2, message |-> "null", messageTimer |-> 0,
                isSynced |-> FALSE, accumulatedScore |-> 0]
    /\ lives = StartLives
    /\ obstacles = <<>>
    /\ pickups = <<>>
    /\ powerup = NoPowerup
    /\ invincibility = 0
    /\ hudShake = 0
    /\ coins = 0
    /\ gameSpeed = INITIAL_SPEED
    /\ score = 0
    /\ distanceScore = 0
    /\ level = 0
    /\ frames = 0
    /\ currentBiomeIndex = 0
    /\ finalScore = 0
    /\ collectedCoins = 0
    /\ inventoryCoins = SavedCoins
    /\ highScore = SavedHighScore
    /\ env = [mode |-> "trail", runs |-> 1, spawns |-> 0, flips |-> 0, pauses |-> 0,
              paused |-> 0, resizes |-> 0, nextId |-> 1]
    /\ hist = [n |-> 0, mult |-> 0, afterBoost |-> FALSE, startCoins |-> SavedCoins]
    /\ gameOverCalls = 0
    /\ last = [LastNone EXCEPT !.op = "reset"]
    /\ audio = NewAudioEngine(TRUE)
    /\ host = NewHost("steady")
    /\ backdrop = NewBackdrop("still", BiomePalette(0), <<>>)

TrailNext == Tick
TrailSpec == TrailInit /\ [][TrailNext]_vars

\* the palette alone (no decorations), from the colours of a biome, with the
\* animation loop never starved
PaletteInit ==
    /\ BackgroundInit
    /\ backdrop.world = "palette"
    /\ backdrop.palette \in {BiomePalette(0), BiomePalette(3)}
PaletteSpec == PaletteInit /\ [][BackgroundNext]_vars
BackgroundFair == PaletteSpec /\ WF_vars(BgTick)



\* ------------------------------------------------------------- claims ---
\* number of entries of the sequence s equal to x
CountOf(s, x) == Cardinality({i \in 1..Len(s) : s[i] = x})

\* C1: the distance accumulator stays in [0, 1) point after every tick; a
\* tick adds to the score exactly floor(previous accumulator + gameSpeed * 0.05),
\* doubled when MULTIPLIER is active, and keeps the fraction: at 0.4 point a
\* tick the score gains 1 on the third tick and 0.2 point is carried over.
C1_DistanceCarry ==
    /\ distanceScore >= 0
    /\ distanceScore < PointUnits
    /\ last.op = "tick" =>
          LET total == last.prevAcc + gameSpeed
              whole == total \div PointUnits
              gain  == IF last.slot.type = "MULTIPLIER" THEN 2 * whole ELSE whole
          IN  /\ distanceScore = total - whole * PointUnits
              /\ last.distAdded = gain
              /\ score = last.prevScore + last.syncBonus + gain + last.passBonus
    /\ LET t1 == DistanceStep(0 + 8000, NoPowerup, 0)
           t2 == DistanceStep(t1.distanceScore + 8000, NoPowerup, t1.score)
           t3 == DistanceStep(t2.distanceScore + 8000, NoPowerup, t2.score)
       IN  /\ t1.score = 0 /\ t2.score = 0 /\ t3.score = 1
           /\ t3.distanceScore = 4000

\* a tick under MULTIPLIER that scored a doubled point and carried a fraction
C1_Witness ==
    /\ last.op = "tick"
    /\ last.slot.type = "MULTIPLIER"
    /\ last.distAdded = 2
    /\ distanceScore > 0
    /\ last.prevAcc + gameSpeed > PointUnits

\* C2: from an empty bucket, N consecutive ticks in proximity without BOOST
\* leave the bucket at N, at 2N when MULTIPLIER was active throughout; the
\* first tick out of proximity after them pays bucket * 5 into the score and
\* empties the bucket.
C2_SyncBucket ==
    /\ hist.n = 0 => drone.accumulatedScore = 0
    /\ hist.mult = 0 => drone.accumulatedScore = hist.n
    /\ hist.mult = hist.n => drone.accumulatedScore = 2 * hist.n
    /\ drone.accumulatedScore = hist.n + hist.mult
    /\ (last.op = "tick" /\ ~last.synced /\ last.prevRun.n > 0) =>
          /\ last.prevBucket = last.prevRun.n + last.prevRun.mult
          /\ last.syncBonus = last.prevBucket * 5
          /\ score = last.prevScore + last.prevBucket * 5 + last.distAdded + last.passBonus
          /\ drone.accumulatedScore = 0

\* the first tick out of proximity after three or more ticks under MULTIPLIER
C2_Witness ==
    /\ last.op = "tick"
    /\ ~last.synced
    /\ last.prevRun.n >= 3
    /\ last.prevRun.mult = last.prevRun.n
    /\ last.prevBucket = 2 * last.prevRun.n
    /\ score >= last.prevScore + 10 * last.prevRun.n
    /\ drone.accumulatedScore = 0

\* C3: within a run the bucket never decreases except by a cash-out: it drops
\* only to 0, only in a tick out of proximity or under BOOST, and in that tick
\* the score grows by 5 times the bucket's previous value.
C3_BucketCashOut ==
    [][ drone'.accumulatedScore < drone.accumulatedScore =>
           \/ last'.op = "reset"
           \/ /\ last'.op = "tick"
              /\ drone'.accumulatedScore = 0
              /\ ~last'.synced \/ last'.slot.type = "BOOST"
              /\ last'.syncBonus = 5 * drone.accumulatedScore
              /\ score' = score + 5 * drone.accumulatedScore
                          + last'.distAdded + last'.passBonus ]_vars

\* a cash-out forced by BOOST while the wisp is still in proximity
C3_Witness ==
    /\ last.op = "tick"
    /\ last.synced
    /\ last.slot.type = "BOOST"
    /\ last.prevBucket > 0
    /\ last.syncBonus = 5 * last.prevBucket
    /\ drone.accumulatedScore = 0

\* an obstacle whose right edge went left of the player in the last tick
NewlyPassed(o) ==
    /\ o.x + o.width < player.x
    /\ o.x + o.width + gameSpeed >= player.x

\* C4: an obstacle's passed flag goes from false to true at most once, in the
\* first tick where obstacle.x + obstacle.width < player.x, is never reset, and
\* the 100-point pass bonus is paid exactly once in the obstacle's lifetime.
C4_PassedOnce ==
    /\ \A i \in 1..Len(obstacles) :
          /\ obstacles[i].passed <=> obstacles[i].x + obstacles[i].width < player.x
          /\ obstacles[i].bonus = IF obstacles[i].passed THEN 1 ELSE 0
    /\ \A i \in 1..Len(last.removed) :
          /\ last.removed[i].passed
          /\ last.removed[i].bonus = 1
    /\ last.op = "tick" =>
          last.passBonus =
              100 * Cardinality({i \in 1..Len(obstacles) : NewlyPassed(obstacles[i])})

\* a passed obstacle, paid once, in a later tick that pays nothing
C4_Witness ==
    /\ last.op = "tick"
    /\ last.passBonus = 0
    /\ \E i \in 1..Len(obstacles) :
          /\ obstacles[i].passed
          /\ obstacles[i].bonus = 1
          /\ ~NewlyPassed(obstacles[i])

\* C5: a pickup's collected flag goes from false to true at most once and the
\* pickup has at most one effect (a coin or a power-up); a collected pickup
\* never changes the coin counter or the slot again.
C5_CollectedOnce ==
    /\ \A i \in 1..Len(pickups) :
          /\ ~pickups[i].collected
          /\ pickups[i].effects = 0
    /\ \A i \in 1..Len(last.gone) :
          last.gone[i].effects = IF last.gone[i].collected THEN 1 ELSE 0
    /\ last.op = "tick" =>
          /\ Len(last.taken)
                = Cardinality({i \in 1..Len(last.gone) : last.gone[i].collected})
          /\ coins - last.prevCoins = CountOf(last.taken, "COIN")
          /\ last.taken = <<>> => powerup = last.slot

\* a tick that collected a coin: one effect, and the pickup is gone
C5_Witness ==
    /\ last.op = "tick"
    /\ last.taken = <<"COIN">>
    /\ coins = last.prevCoins + 1
    /\ \E i \in 1..Len(last.gone) :
          last.gone[i].collected /\ last.gone[i].effects = 1

\* the pickups of the last tick, in the order collected, without the coins
UpsTaken == SelectSeq(last.taken, LAMBDA t : t # "COIN")

\* C6: collecting a non-coin pickup replaces the active power-up and starts a
\* fresh timer, 180 ticks for BOOST and 600 for MULTIPLIER and MAGNET;
\* collecting a COIN adds 1 to the run's coins and leaves the slot as it is;
\* the slot holds one power-up or none.
C6_SlotReplace ==
    /\ powerup.type \in {"null", "MULTIPLIER", "MAGNET", "BOOST"}
    /\ last.op = "tick" =>
          /\ coins = last.prevCoins + Len(last.taken) - Len(UpsTaken)
          /\ powerup = IF UpsTaken = <<>>
                       THEN last.slot
                       ELSE [type |-> UpsTaken[Len(UpsTaken)],
                             timer |-> IF UpsTaken[Len(UpsTaken)] = "BOOST"
                                       THEN 180 ELSE 600]

\* a BOOST collected while another power-up was running
C6_Witness ==
    /\ last.op = "tick"
    /\ last.taken = <<"BOOST">>
    /\ last.slot.type \in {"MULTIPLIER", "MAGNET"}
    /\ last.slot.timer > 0
    /\ powerup = [type |-> "BOOST", timer |-> 180]

\* C7: when the power-up timer reaches 0 the slot is emptied in that tick;
\* when it was BOOST, from that tick on the speed is at most MAX_SPEED, the
\* gravity physics run, the gravity flip works and obstacles spawn again.
C7_Expiry ==
    /\ (last.op = "tick" /\ last.prevPowerup.type # "null" /\ last.prevPowerup.timer <= 1) =>
          /\ last.expired = last.prevPowerup.type
          /\ last.slot.type = "null"
          /\ UpsTaken = <<>> => powerup.type = "null"
    /\ (last.op = "tick" /\ last.expired # "null") => last.prevPowerup.timer <= 1
    /\ (last.op = "tick" /\ last.baseline) =>
          /\ last.physics = "gravity"
          /\ gameSpeed <= MAX_SPEED
          /\ (last.roll = "obstacle" /\ canvasSize.width # 0) => last.spawned = "obstacle"
    /\ (last.op = "trigger" /\ last.baseline) =>
          /\ player.gravity = -last.prevPlayer.gravity
          /\ ~player.isGrounded
    /\ hist.afterBoost =>
          /\ powerup.type # "BOOST"
          /\ gameSpeed <= MAX_SPEED

\* the tick in which a BOOST ran out
C7_Witness ==
    /\ last.op = "tick"
    /\ last.prevPowerup = [type |-> "BOOST", timer |-> 1]
    /\ last.expired = "BOOST"
    /\ powerup.type = "null"
    /\ last.physics = "gravity"
    /\ gameSpeed = MAX_SPEED

\* C8: an obstacle hit costs a life only when BOOST is not active and the
\* invincibility counter is 0; it takes exactly one life; when lives remain it
\* sets invincibility to 120 and the shake to 20 and the run goes on; the run
\* ends only when the lives reach zero.
C8_HitCostsLife ==
    /\ gameState = "GAME_OVER" => lives <= 0
    /\ gameOverCalls > 0 => lives <= 0
    /\ last.op = "tick" =>
          /\ lives = last.prevLives - last.hits
          /\ last.hits > 0 <=>
                (last.overlaps > 0 /\ ~last.boostAtHit /\ last.invBefore = 0)
          /\ (last.hits > 0 /\ lives > 0) =>
                /\ last.hits = 1
                /\ invincibility = 120
                /\ hudShake = 20
                /\ gameState = "PLAYING"
                /\ gameOverCalls = 0

\* a hit that left two lives
C8_Witness ==
    /\ last.op = "tick"
    /\ last.hits = 1
    /\ last.prevLives = 3
    /\ lives = 2
    /\ invincibility = 120
    /\ gameState = "PLAYING"

\* C9: gameOver() runs at most once in a run, also when several obstacles
\* overlap the player in the tick that takes the last life.
C9_GameOverOnce == gameOverCalls <= 1

\* the last life taken by two obstacles in one tick
C9_DoubleHit ==
    /\ last.op = "tick"
    /\ last.prevLives = 1
    /\ last.overlaps = 2
    /\ last.hits = 2
    /\ gameOverCalls = 2
    /\ gameState = "GAME_OVER"

\* C10: a trigger while PLAYING negates the gravity and clears the grounded
\* flag, so two triggers in a row restore the gravity's sign; under BOOST the
\* trigger changes no simulation state.
C10_Trigger ==
    /\ [](Abs(player.gravity) = GRAVITY_FORCE)
    /\ [][ last'.op = "trigger" =>
              /\ UNCHANGED <<gameState, canvasSize, drone, lives, obstacles, pickups,
                             powerup, invincibility, hudShake, coins, gameSpeed, score,
                             distanceScore, level, frames, currentBiomeIndex,
                             finalScore, collectedCoins, inventoryCoins, highScore>>
              /\ IF powerup.type = "BOOST"
                 THEN player' = player
                 ELSE /\ player' = [player EXCEPT !.gravity = -player.gravity,
                                                  !.isGrounded = FALSE]
                      /\ (last.op = "trigger" /\ last.prevPowerup.type # "BOOST") =>
                             player'.gravity = last.prevPlayer.gravity ]_vars

\* a trigger under BOOST, after which the player is as before
C10_Witness ==
    /\ last.op = "trigger"
    /\ last.prevPowerup.type = "BOOST"
    /\ player = last.prevPlayer
    /\ player.gravity = GRAVITY_FORCE


\* the player is inside the viewport
InBounds(p) == 0 <= p.y /\ p.y <= canvasSize.height - p.height

\* the player touches the top or the bottom boundary
AtBoundary(p) == p.y = 0 \/ p.y = canvasSize.height - p.height

\* C11 as stated: after every updateGame tick 0 <= y <= viewportHeight -
\* player.height and |dy| <= 15; after a tick without BOOST isGrounded is true
\* exactly when y is at one of the two boundaries, and then dy = 0.
C11_PlayerInBounds ==
    last.op = "tick" =>
        /\ InBounds(player)
        /\ Abs(player.dy) <= 15 * Px
        /\ last.physics = "gravity" =>
              /\ player.isGrounded <=> AtBoundary(player)
              /\ player.isGrounded => player.dy = 0

\* C11 amended: after every tick |dy| <= 15; after a tick without BOOST in a
\* viewport at least as high as the player, 0 <= y <= viewportHeight -
\* player.height, isGrounded is true exactly at a boundary, and then dy = 0;
\* after a tick under BOOST dy = 0, isGrounded is false and y lies between its
\* previous value and the centre line, so it is in bounds if it was before.
C11_PlayerClamped ==
    last.op = "tick" =>
        /\ Abs(player.dy) <= 15 * Px
        /\ (last.physics = "gravity" /\ canvasSize.height >= player.height) =>
              /\ InBounds(player)
              /\ player.isGrounded <=> AtBoundary(player)
              /\ player.isGrounded => player.dy = 0
        /\ last.physics = "boost" =>
              LET centre == canvasSize.height \div 2 - player.height \div 2
                  before == last.prevPlayer.y
              IN  /\ player.dy = 0
                  /\ ~player.isGrounded
                  /\ \/ before <= player.y /\ player.y <= centre
                     \/ centre <= player.y /\ player.y <= before
                  /\ InBounds(last.prevPlayer) => InBounds(player)

\* the player landed on the top boundary after a gravity flip
C11_Witness ==
    /\ last.op = "tick"
    /\ last.physics = "gravity"
    /\ player.gravity < 0
    /\ last.prevPlayer.y > 0
    /\ player.y = 0
    /\ player.isGrounded
    /\ player.dy = 0


\* C12: no obstacle is added to the obstacle list in a tick in which BOOST is
\* the active power-up at spawn time, whatever the frame count and the speed.
C12_NoSpawnUnderBoost ==
    [][ (last'.op = "tick" /\ last'.slot.type = "BOOST") =>
           \A i \in 1..Len(obstacles') :
               \E j \in 1..Len(obstacles) : obstacles[j].id = obstacles'[i].id ]_vars

\* a spawn frame under BOOST whose random numbers asked for an obstacle
C12_Witness ==
    /\ last.op = "tick"
    /\ last.slot.type = "BOOST"
    /\ last.roll = "obstacle"
    /\ canvasSize.width > 0
    /\ last.spawned = "none"


\* the largest biome index whose threshold (0, 2000, 5000, 8000) is at most sc
LargestBiome(sc) ==
    CHOOSE i \in 0..3 :
        /\ <<0, 2000, 5000, 8000>>[i + 1] <= sc
        /\ \A j \in 0..3 : <<0, 2000, 5000, 8000>>[j + 1] <= sc => j <= i

\* C20: after every updateBackground call the biome index is the largest i
\* with BIOMES[i].threshold <= score (the score at the time of the call), and
\* within one run the biome index never decreases.
C20_BiomeIndex ==
    /\ [](/\ last.op = "tick" => currentBiomeIndex = LargestBiome(last.prevScore)
          /\ last.op = "ambient" => currentBiomeIndex = LargestBiome(score))
    /\ [][ last'.op # "reset" => currentBiomeIndex' >= currentBiomeIndex ]_vars

\* a tick whose updateBackground call saw a score in the second biome
C20_Witness ==
    /\ last.op = "tick"
    /\ last.prevScore >= 2000
    /\ last.prevScore < 5000
    /\ currentBiomeIndex = 1

\* ------------------------------------------------ claims: audio engine --
\* the engine's sequencer state as the statements name it
Sequencer(a) == <<a.isPlaying, a.currentTrack, a.step, a.nextNoteTime>>
CeilDiv(n, d) == (n + d - 1) \div d

\* C13: with an audio context, playTrack(t) from the stopped state or with a
\* track other than the playing one leaves isPlaying true, currentTrack = t,
\* step = 0 and nextNoteTime = clock + 0.1 s; playTrack(t) with t already
\* playing changes nothing; stopMusic() leaves isPlaying false and currentTrack
\* 'none'.
C13_PlayTrack ==
    /\ (host.call.op = "playTrack" /\ audio.ctx) =>
          IF host.call.before.isPlaying /\ host.call.before.currentTrack = host.call.arg
          THEN /\ audio = host.call.before
               /\ host.timers = host.call.timersBefore
               /\ host.call.scheduled = 0 /\ ~host.call.armed
          ELSE /\ audio.isPlaying
               /\ audio.currentTrack = host.call.arg
               /\ audio.step = 0
               /\ audio.nextNoteTime = host.currentTime + StartLead
    /\ host.call.op = "stopMusic" => ~audio.isPlaying /\ audio.currentTrack = "none"

\* a switch of track after steps of the first track were scheduled
C13_Witness ==
    /\ host.call.op = "playTrack"
    /\ host.call.before.isPlaying
    /\ host.call.before.currentTrack # host.call.arg
    /\ host.call.before.step > 0
    /\ audio.currentTrack = host.call.arg
    /\ audio.step = 0

\* C14 as stated: every scheduler() invocation while playing schedules exactly
\* ceil(L/T) steps, L the lookahead and T the track's tempo interval.
C14_StepsPerCall ==
    (host.call.op = "scheduler" /\ host.call.before.isPlaying) =>
        host.call.scheduled = CeilDiv(Lookahead, Tempo(host.call.before.currentTrack))

\* C14 amended: a scheduler() invocation while playing schedules exactly the
\* steps whose start time is before clock + L (none, one or several) and
\* leaves nextNoteTime >= clock + L; when every timer fires as it falls due
\* that is at most ceil(L/T) steps.
C14_Lookahead ==
    (host.call.op = "scheduler" /\ host.call.before.isPlaying) =>
        LET T == Tempo(host.call.before.currentTrack)
            from == host.call.before.nextNoteTime
            limit == host.currentTime + Lookahead
        IN  /\ host.call.scheduled = IF from >= limit THEN 0 ELSE CeilDiv(limit - from, T)
            /\ audio.nextNoteTime >= limit
            /\ audio.nextNoteTime = from + host.call.scheduled * T
            /\ host.mode # "jitter" => host.call.scheduled <= CeilDiv(Lookahead, T)

\* a callback that came late and scheduled two steps
C14_Witness ==
    /\ host.call.op = "scheduler"
    /\ host.call.before.isPlaying
    /\ host.call.scheduled = 2

\* C15: between a playTrack and the next playTrack or stopMusic the k-th
\* scheduled step (k from 0) uses pattern index k mod 32 and start time
\* t0 + k*T, t0 being the nextNoteTime playTrack set; nextNoteTime grows by
\* exactly T per step and no index is skipped or duplicated, whatever the
\* timing of the callbacks.
C15_StepSequence ==
    /\ \A i \in 1..Len(host.played) :
          /\ host.played[i].k = i - 1
          /\ host.played[i].s = (i - 1) % 32
          /\ host.played[i].at = host.t0 + (i - 1) * Tempo(host.played[i].track)
          /\ host.played[i].track = host.played[1].track
    /\ audio.isPlaying =>
          /\ audio.step = Len(host.played)
          /\ audio.nextNoteTime = host.t0 + Len(host.played) * Tempo(audio.currentTrack)
          /\ \A i \in 1..Len(host.played) : host.played[i].track = audio.currentTrack

\* the pattern has wrapped: the 33rd step of a track uses index 0 again
C15_Witness ==
    /\ Len(host.played) > 32
    /\ host.played[33].s = 0
    /\ host.played[33].k = 32

\* C16: while the engine is stopped no step is scheduled and no timer is
\* armed, until the next playTrack; at most one scheduler timer is pending at
\* any time, and none while the engine is stopped.
C16_OneTimer ==
    /\ [](/\ Cardinality(host.timers) <= 1
          /\ ~audio.isPlaying => host.timers = {})
    /\ [][ (~audio.isPlaying /\ host'.call.op # "playTrack") =>
              /\ host'.played = host.played
              /\ host'.timers = {}
              /\ host'.nextTimer = host.nextTimer ]_vars

\* stopMusic took the pending timer away, and the clock went on to a time at
\* which a callback would have scheduled the next step
C16_Witness ==
    /\ ~audio.isPlaying
    /\ audio.ctx
    /\ audio.timerID # 0
    /\ host.call.op = "advance"
    /\ audio.nextNoteTime < host.currentTime + Lookahead

\* C17: playSfx, of any type and in any state, leaves nextNoteTime, step,
\* isPlaying, currentTrack and the pending timer as they were.
C17_SfxApart ==
    [][ host'.call.op = "playSfx" =>
           /\ Sequencer(audio') = Sequencer(audio)
           /\ audio'.timerID = audio.timerID
           /\ host'.timers = host.timers
           /\ host'.played = host.played ]_vars

\* a sound effect played while the music plays and a callback is pending
C17_Witness ==
    /\ host.call.op = "playSfx"
    /\ host.sfx > 0
    /\ audio.isPlaying
    /\ audio.step > 0
    /\ host.timers # {}

\* C18: without an audio context playTrack, scheduler, playSfx, playDrum,
\* playLeadNote, playBassNote, playTone, setVolumes and stopMusic return
\* without error, schedule nothing, arm no timer and leave isPlaying false.
C18_NoContext ==
    ~audio.ctx =>
        LET same == [audio |-> audio, host |-> host]
        IN  /\ ~audio.isPlaying
            /\ host.played = <<>> /\ host.sfx = 0 /\ host.gains = 0
            /\ host.timers = {} /\ host.nextTimer = 1
            /\ ~host.error
            /\ \A t \in Tracks : playTrack(audio, host, t) = same
            /\ scheduler(audio, host) = same
            /\ \A type \in SfxTypes : playSfx(audio, host, type) = same
            /\ setVolumes(audio, host) = same
            /\ playDrum(audio) = 0 /\ playLeadNote(audio) = 0
            /\ playBassNote(audio) = 0 /\ playTone(audio) = 0
            /\ stopMusic(audio, host).host = host
            /\ ~stopMusic(audio, host).audio.isPlaying

\* every kind of call was made on an engine without a context
C18_Witness ==
    /\ ~audio.ctx
    /\ host.ops > 1
    /\ host.sides > 0
    /\ host.call.op = "playTrack"
    /\ host.currentTime > 0

\* C19: whatever delay the host's timer adds, every step is scheduled with a
\* start time (nextNoteTime) that is not before the audio clock at the moment
\* of scheduling.
C19_NotInPast ==
    (host.call.op = "scheduler" /\ host.call.scheduled > 0) =>
        \A i \in (Len(host.played) - host.call.scheduled + 1)..Len(host.played) :
            host.played[i].at >= host.currentTime

\* a callback that came later than the lookahead gave a step a start time
\* that had already passed
C19_LateStep ==
    /\ host.call.op = "scheduler"
    /\ host.call.scheduled > 0
    /\ host.played[Len(host.played)].at < host.currentTime

\* -------------------------------------------------- claims: background --
Between(a, x, b) == (a <= x /\ x <= b) \/ (b <= x /\ x <= a)

\* C21: after a step of lerpColor(current, target, 0.01) each of the three
\* channels of every palette colour is within 0..255 and lies between its
\* value before the step and the target's value.
C21_ChannelBounds ==
    backdrop.op = "tick" =>
        \A slot \in Slots :
            /\ backdrop.palette[slot] \in 0..16777215
            /\ \A ch \in 1..3 :
                  /\ Channels(backdrop.palette[slot])[ch] \in 0..255
                  /\ Between(Channels(backdrop.before[slot])[ch],
                             Channels(backdrop.palette[slot])[ch],
                             Channels(backdrop.target[slot])[ch])

\* a step in which one channel rose and another fell
C21_Witness ==
    /\ backdrop.op = "tick"
    /\ \E slot \in Slots : \E ch \in 1..3 :
          Channels(backdrop.palette[slot])[ch] > Channels(backdrop.before[slot])[ch]
    /\ \E slot \in Slots : \E ch \in 1..3 :
          Channels(backdrop.palette[slot])[ch] < Channels(backdrop.before[slot])[ch]

\* C22: while the selected biome stays the same, repeated updateBackground
\* calls make every channel of the palette eventually equal the biome's
\* colours (the score, and so the biome, never changes in this
\* specification).
C22_Converges ==
    backdrop.world = "palette" =>
        <>(backdrop.palette = BiomePalette(UpdateBackground(score)))

\* a call that left the palette as it was, short of the target
C22_Stuck ==
    /\ backdrop.world = "palette"
    /\ backdrop.op = "tick"
    /\ backdrop.palette = backdrop.before
    /\ backdrop.target = BiomePalette(UpdateBackground(score))
    /\ \E slot \in Slots : \E ch \in 1..3 :
          LET gap == Channels(backdrop.target[slot])[ch]
                     - Channels(backdrop.palette[slot])[ch]
          IN  gap > 0 /\ gap < 100

\* C29: after every updateBackground call with a non-zero viewport width no
\* decoration has its right edge left of x = -100, layer 0 holds at least 5
\* decorations and layer 1 at least 8.
C29_LayersFilled ==
    (backdrop.op = "tick" /\ canvasSize.width # 0) =>
        /\ \A i \in 1..Len(backdrop.bgEntities) : ~OffLeft(backdrop.bgEntities[i])
        /\ LayerCount(backdrop.bgEntities, 0) >= 5
        /\ LayerCount(backdrop.bgEntities, 1) >= 8

\* two decorations of layer 1 left in the same call and one was spawned
C29_TwoLeft ==
    /\ backdrop.op = "tick"
    /\ canvasSize.width # 0
    /\ LayerCount(backdrop.gone, 1) = 2
    /\ LayerCount(backdrop.bgEntities, 1) = 7

\* ------------------------------------------------ claims: simulation, 2 --
LegalModeChanges ==
    {<<"MENU", "PLAYING">>, <<"PLAYING", "PAUSED">>, <<"PAUSED", "PLAYING">>,
     <<"PLAYING", "GAME_OVER">>, <<"GAME_OVER", "MENU">>, <<"GAME_OVER", "PLAYING">>,
     <<"MENU", "STORE">>, <<"STORE", "MENU">>, <<"MENU", "SETTINGS">>,
     <<"SETTINGS", "MENU">>}

\* C23 as stated: every change of game mode is one of MENU->PLAYING,
\* PLAYING->PAUSED, PAUSED->PLAYING, PLAYING->GAME_OVER, GAME_OVER->MENU,
\* GAME_OVER->PLAYING, MENU<->STORE, MENU<->SETTINGS.
C23_LegalModes ==
    [][ gameState' # gameState => <<gameState, gameState'>> \in LegalModeChanges ]_vars

\* C23 amended: every change of game mode is one of those or PAUSED->MENU
\* (the pause screen's QUIT button).
C23_ModesWithQuit ==
    [][ gameState' # gameState =>
           <<gameState, gameState'>> \in LegalModeChanges \cup {<<"PAUSED", "MENU">>} ]_vars

\* the run was left by QUIT: the menu shows while the run's state stands
C23_Witness ==
    /\ gameState = "MENU"
    /\ last.op = "quit"
    /\ frames > 0
    /\ gameOverCalls = 0

Unsized(size) == size.width = 0 \/ size.height = 0

\* C24 as stated: on a viewport whose width or height is 0 the spawn
\* operations add nothing, and no obstacle, pickup or decoration has a zero or
\* negative width or height.
C24_NoDegenerate ==
    [][ /\ Unsized(canvasSize) /\ canvasSize' = canvasSize /\ gameState' = gameState
           => /\ Len(obstacles') <= Len(obstacles)
              /\ Len(pickups') <= Len(pickups)
              /\ Len(backdrop'.bgEntities) <= Len(backdrop.bgEntities)
        /\ \A i \in DOMAIN obstacles' :
               obstacles'[i].width > 0 /\ obstacles'[i].height > 0
        /\ \A i \in DOMAIN backdrop'.bgEntities :
               backdrop'.bgEntities[i].w > 0 /\ backdrop'.bgEntities[i].h > 0 ]_vars

\* an obstacle of no extent, spawned on a viewport 200 px wide and 0 px high
C24_ZeroObstacle ==
    /\ canvasSize.width > 0 /\ canvasSize.height = 0
    /\ last.op = "tick" /\ last.spawned = "obstacle"
    /\ \E i \in DOMAIN obstacles : obstacles[i].width = 0 /\ obstacles[i].height = 0

\* C25 as stated: under MAGNET a COIN at the player's position is not
\* attracted in that tick and its coordinates stay well-defined numbers (here:
\* no pickup ever holds coordinates that are not numbers).
C25_WellDefined == \A i \in DOMAIN pickups : ~pickups[i].nan

\* a COIN spawned on the player under MAGNET: its coordinates are NaN
C25_NaNCoin ==
    /\ last.op = "tick" /\ last.spawned = "pickup"
    /\ powerup.type = "MAGNET"
    /\ \E i \in DOMAIN pickups : pickups[i].type = "COIN" /\ pickups[i].nan

\* overlap of the box (x, y, w, h) with the player's box shrunk by pad
OverlapsPlayer(pad, x, y, w, h) ==
    /\ player.x + pad < x + w
    /\ player.x + player.width - pad > x
    /\ player.y + pad < y + h
    /\ player.y + player.height - pad > y
PickupOverlaps(pad, pk) == ~pk.nan /\ OverlapsPlayer(pad, pk.x, pk.y, 30 * Px, 30 * Px)
ObstacleOverlaps(pad, o) == OverlapsPlayer(pad, o.x, o.y, o.width, o.height)
TickObstacles == obstacles \o last.removed
TickPickups == pickups \o last.gone

\* C26 as stated: the obstacle test and the pickup test both use the player's
\* box shrunk by 8 px on every side: a pickup collected in a tick overlapped
\* the shrunk box, and an obstacle hit only when one overlapped it.
C26_InsetForBoth ==
    last.op = "tick" =>
       /\ \A i \in DOMAIN last.gone :
             last.gone[i].collected => PickupOverlaps(8 * Px, last.gone[i])
       /\ last.hits > 0 =>
             \E i \in DOMAIN TickObstacles : ObstacleOverlaps(8 * Px, TickObstacles[i])

\* C26 amended: the obstacle test uses the player's box shrunk by 8 px on
\* every side, the pickup test the player's full box, both against the full
\* bounds of the item: after a tick the collected pickups are exactly those
\* that overlap the full box (one overlapping only the 8-px margin is
\* collected), and an obstacle hit only when one overlapped the shrunk box.
C26_InsetForObstacles ==
    last.op = "tick" =>
       /\ \A i \in DOMAIN TickPickups :
             TickPickups[i].collected <=> PickupOverlaps(0, TickPickups[i])
       /\ last.hits > 0 =>
             \E i \in DOMAIN TickObstacles : ObstacleOverlaps(8 * Px, TickObstacles[i])

\* a pickup collected through the 8-px margin alone
C26_Witness ==
    /\ last.op = "tick"
    /\ \E i \in DOMAIN last.gone :
          /\ last.gone[i].collected
          /\ PickupOverlaps(0, last.gone[i])
          /\ ~PickupOverlaps(8 * Px, last.gone[i])

\* C27: when a run ends by game over the inventory's coins become their value
\* at the start of the run plus the coins collected in the run, once: until
\* then they keep the starting value, and a second gameOver() in the final
\* tick adds nothing.
C27_CoinsCredited ==
    /\ gameState \in {"PLAYING", "PAUSED"} => inventoryCoins = hist.startCoins
    /\ gameState = "GAME_OVER" =>
          /\ inventoryCoins = hist.startCoins + coins
          /\ collectedCoins = coins

\* a run with a coin that ended with two gameOver() calls in its last tick
C27_Witness ==
    /\ gameState = "GAME_OVER"
    /\ gameOverCalls = 2
    /\ coins > 0
    /\ inventoryCoins = SavedCoins + coins

\* C28 as stated: while the mode is PAUSED no step changes the scroll speed,
\* the frame counter, the score, the distance accumulator, the sync bucket,
\* the player, the obstacles, the pickups, the power-up slot, the lives or the
\* invincibility counter.
C28_PauseFreezes ==
    [][ gameState = "PAUSED" =>
           UNCHANGED <<gameSpeed, frames, score, distanceScore, drone, player,
                       obstacles, pickups, powerup, lives, invincibility>> ]_vars

\* a run resumed from a pause at the ambient speed 2 instead of its own
C28_SlowResume ==
    /\ gameState = "PLAYING"
    /\ last.op = "escape"
    /\ env.paused > 0
    /\ gameSpeed = AmbientSpeed
    /\ gameSpeed < INITIAL_SPEED

IdsOf(seq) == {seq[i].id : i \in DOMAIN seq}
\* max(20, floor(1000 / (speed * 1.3))) for a speed in milli-px per tick
SpawnInterval(speed) ==
    IF 10000000 \div (13 * speed) < 20 THEN 20 ELSE 10000000 \div (13 * speed)

\* C30: a step creates at most one entity (an obstacle or a pickup, never
\* both), and only an updateGame tick whose incremented frame counter is a
\* multiple of max(20, floor(1000 / (speed * 1.3))) creates one.
C30_OneSpawn ==
    [][ LET created == (IdsOf(obstacles') \cup IdsOf(last'.removed)
                           \cup IdsOf(pickups') \cup IdsOf(last'.gone))
                          \ (IdsOf(obstacles) \cup IdsOf(pickups))
        IN  /\ Cardinality(created) <= 1
            /\ created # {} =>
                  /\ last'.op = "tick"
                  /\ frames' = frames + 1
                  /\ frames' % SpawnInterval(gameSpeed') = 0 ]_vars

\* a tick on a spawn frame later than the first that created a pickup and no
\* obstacle
C30_Witness ==
    /\ last.op = "tick" /\ last.spawned = "pickup"
    /\ frames > 100
    /\ frames % SpawnInterval(gameSpeed) = 0
    /\ \E i \in DOMAIN pickups : pickups[i].id = env.nextId - 1
    /\ \A i \in DOMAIN obstacles : obstacles[i].id < env.nextId - 1

\* ------------------------------------------------ claims: simulation, 3 --
\* C31 as stated: an obstacle spawned at x = width + 50 and scrolled at 8 px
\* per tick is in the list after fewer than ceil((width + 150) / 8) passes of
\* the obstacle loop and is removed by the pass of that number.
C31_TicksToLeave ==
    LET n == (canvasSize.width + 150 * Px + 8 * Px - 1) \div (8 * Px)
    IN  /\ obstacles # <<>> => frames < n
        /\ last.removed # <<>> => frames = n

\* C31 amended: the obstacle is removed by pass number
\* floor((width + 150 + obstacleWidth) / 8) + 1 of the obstacle loop (the
\* first pass being that of the tick that spawned it) and not before.
C31_TicksToLeaveWide ==
    LET n(o) == (canvasSize.width + 150 * Px + o.width) \div (8 * Px) + 1
    IN  /\ obstacles # <<>> => frames < n(obstacles[1])
        /\ last.removed # <<>> => frames = n(last.removed[1])

\* an obstacle 36 px wide removed from a viewport 200 px wide by pass 49
C31_Witness ==
    /\ env.mode = "scroll"
    /\ canvasSize.width = 200 * Px
    /\ last.removed # <<>>
    /\ obstacles = <<>>
    /\ last.removed[1].width > 35 * Px
    /\ frames = 49

C33_SpeedCapped ==
    (last.op = "tick" /\ powerup.type # "BOOST")
        => gameSpeed < MAX_SPEED + SPEED_INCREMENT

\* a tick that began and ended without BOOST at a speed above the cap: the
\* boost was replaced by another power-up in an earlier tick
C33_BoostSpeedKept ==
    /\ last.op = "tick"
    /\ last.slot.type \notin {"BOOST", "null"}
    /\ powerup.type = last.slot.type
    /\ last.expired = "null"
    /\ gameSpeed > MAX_SPEED + SPEED_INCREMENT

\* ------------------------------------------------------ claims: audio, 2 --
\* C34: while isPlaying holds currentTrack is 'menu' or 'game'; every pass of
\* the scheduler's loop moved nextNoteTime forward by a positive tempo (the
\* steps scheduled since the track started have increasing start times, the
\* next one later still), and no scheduler call failed to end.
C34_TrackWhilePlaying ==
    /\ audio.isPlaying => audio.currentTrack \in {"menu", "game"}
    /\ ~host.error
    /\ \A i \in 2..Len(host.played) : host.played[i].at > host.played[i - 1].at
    /\ (audio.isPlaying /\ host.played # <<>>)
          => audio.nextNoteTime > host.played[Len(host.played)].at

\* a timer callback that scheduled a step, after two playTrack / stopMusic calls
C34_Witness ==
    /\ audio.isPlaying
    /\ host.call.op = "scheduler"
    /\ host.call.scheduled > 0
    /\ host.ops > 1
    /\ Len(host.played) > 1

\* ------------------------------------------------ claims: simulation, 4 --
\* C35 as stated: the lives counter is always in 0..3 and only decreases
\* within a run.
C35_LivesInRange ==
    /\ lives \in 0..3
    /\ last.op = "tick" => lives <= last.prevLives

\* the display after the fatal tick: a negative number of lives
C35_NegativeLives ==
    /\ gameState = "GAME_OVER"
    /\ lives = -1
    /\ last.prevLives = 1
    /\ last.hits = 2

\* C36 as stated: two life decrements of a run are at least 120 ticks apart,
\* and between hits the invincibility counter only goes down, by 1 per tick,
\* to 0.  The counter is 120 after a non-fatal hit, so the ticks t+1 .. t+119
\* are those that begin with the counter at 2 or more: no life is lost in
\* them, and no tick takes two lives.
C36_HitsApart ==
    [][ last'.op = "tick" =>
          /\ last'.hits <= 1
          /\ lives' = lives - last'.hits
          /\ invincibility >= 2 => lives' = lives
          /\ last'.hits = 0 =>
                invincibility' = IF invincibility > 0 THEN invincibility - 1 ELSE 0
          /\ (last'.hits = 1 /\ lives' > 0) => invincibility' = 120 ]_vars

\* a tick that took two lives at once, the counter being 0 for both hits
C36_SameTickTwice ==
    /\ last.op = "tick"
    /\ last.invBefore = 0
    /\ invincibility = 0
    /\ lives = last.prevLives - 2

\* C37: the power-up slot is consistent after every tick and after resetGame:
\* the type is null exactly when the timer is 0, and a type in the slot has a
\* timer in 1..600, in 1..180 for BOOST.
C37_SlotConsistent ==
    /\ powerup.type = "null" <=> powerup.timer = 0
    /\ powerup.type # "null" => powerup.timer \in 1..600
    /\ powerup.type = "BOOST" => powerup.timer \in 1..180

\* the tick in which a power-up ran out: the slot is empty, the timer 0
C37_Witness ==
    /\ last.op = "tick"
    /\ last.expired \in {"MAGNET", "MULTIPLIER", "BOOST"}
    /\ powerup.type = "null"
    /\ powerup.timer = 0

\* C38: within a run the score is a non-negative integer that no step lowers;
\* a tick raises it by the sum of what the three channels paid (the whole
\* part of the distance accumulator, 5 times the bucket on a cash-out, 100 per
\* obstacle newly passed), and no other step of a run changes it.
C38_ScoreChannels ==
    [][ /\ score \in Nat
        /\ score' \in Nat
        /\ last'.op # "reset" => score' >= score
        /\ last'.op = "tick" =>
              /\ last'.distAdded \in Nat
              /\ last'.syncBonus \in {0, SyncPayout * drone.accumulatedScore}
              /\ \E k \in 0..Len(obstacles) : last'.passBonus = PassBonus * k
              /\ score' - score =
                    last'.distAdded + last'.syncBonus + last'.passBonus
        /\ last'.op \notin {"tick", "reset"} => score' = score ]_vars

\* a tick in which the distance channel and the pass bonus both pay
C38_Witness ==
    /\ last.op = "tick"
    /\ last.prevScore > 0
    /\ last.distAdded > 0
    /\ last.passBonus = PassBonus
    /\ score = last.prevScore + last.distAdded + last.syncBonus + last.passBonus

\* the larger of two scores
HigherScore(a, b) == IF a >= b THEN a ELSE b

\* C39 as stated: the stored high score never decreases, and every report of
\* a final score at game over leaves it at the maximum of its value before
\* and the score reported.
C39_HighScoreMax ==
    [][ /\ highScore' >= highScore
        /\ gameOverCalls' > gameOverCalls =>
              highScore' = HigherScore(highScore, finalScore') ]_vars

\* a run that ended below the saved high score and replaced it
C39_HighScoreLowered ==
    /\ gameState = "GAME_OVER"
    /\ gameOverCalls > 0
    /\ finalScore < SavedHighScore
    /\ highScore = finalScore

\* a pickup that is off the left edge (x + width < -50)
PickupOffLeft(pk) == ~pk.nan /\ pk.x + PickupSize < -50 * Px

\* the ids of a list are in insertion order
InOrder(seq) == \A i, j \in DOMAIN seq : i < j => seq[i].id < seq[j].id

\* C40: in every updateGame tick the pickups removed are exactly those that
\* are off the left edge or were collected in this tick: no index is queued
\* twice, every removed pickup is off-screen or collected, every pickup that
\* stays is on-screen and uncollected, and those that stay keep their
\* insertion order.
C40_RemovedExactly ==
    /\ InOrder(pickups)
    /\ \A i \in DOMAIN pickups : ~PickupOffLeft(pickups[i]) /\ ~pickups[i].collected
    /\ last.op = "tick" =>
          /\ \A i, j \in DOMAIN last.queued : i < j => last.queued[i] < last.queued[j]
          /\ Len(last.gone) = Len(last.queued)
          /\ InOrder(last.gone)
          /\ IdsOf(last.gone) \cap IdsOf(pickups) = {}
          /\ \A i \in DOMAIN last.gone :
                 PickupOffLeft(last.gone[i]) \/ last.gone[i].collected

\* a tick that removed the first of two pickups and kept the second
C40_Witness ==
    /\ last.op = "tick"
    /\ last.queued = <<1>>
    /\ Len(last.gone) = 1
    /\ Len(pickups) >= 1
    /\ last.gone[1].id < pickups[1].id

=============================================================================
